---- MODULE Spec2Model ----
(***************************************************************************)
(* A model of epify's internal/media package: MkSeason, AddEpisodes and    *)
(* sortEpisodes, over a small filesystem.  File names are sequences of     *)
(* one-character strings, so that the regular expressions, the             *)
(* fmt.Sprintf templates and the byte order of os.ReadDir are computed     *)
(* and not assumed.                                                        *)
(***************************************************************************)
EXTENDS Integers, Sequences, FiniteSets, TLC

(***************************************************************************)
(* Characters and strings                                                  *)
(***************************************************************************)

\* the byte value of a character (ASCII), the order os.ReadDir sorts by
Ord(c) ==
  CASE c = " " -> 32 [] c = "(" -> 40 [] c = ")" -> 41 [] c = "+" -> 43
    [] c = "-" -> 45 [] c = "." -> 46
    [] c = "0" -> 48 [] c = "1" -> 49 [] c = "2" -> 50 [] c = "3" -> 51
    [] c = "4" -> 52 [] c = "5" -> 53 [] c = "6" -> 54 [] c = "7" -> 55
    [] c = "8" -> 56 [] c = "9" -> 57
    [] c = "A" -> 65 [] c = "B" -> 66 [] c = "E" -> 69 [] c = "S" -> 83 [] c = "X" -> 88
    [] c = "a" -> 97 [] c = "b" -> 98 [] c = "c" -> 99 [] c = "d" -> 100
    [] c = "e" -> 101 [] c = "f" -> 102 [] c = "h" -> 104 [] c = "k" -> 107
    [] c = "l" -> 108 [] c = "m" -> 109 [] c = "n" -> 110 [] c = "o" -> 111
    [] c = "p" -> 112 [] c = "s" -> 115 [] c = "v" -> 118 [] c = "x" -> 120

\* the class \d of the regular expressions
IsDigit(c) == c \in {"0", "1", "2", "3", "4", "5", "6", "7", "8", "9"}

DigitVal(c) == Ord(c) - 48

DigitChar(d) ==
  CASE d = 0 -> "0" [] d = 1 -> "1" [] d = 2 -> "2" [] d = 3 -> "3"
    [] d = 4 -> "4" [] d = 5 -> "5" [] d = 6 -> "6" [] d = 7 -> "7"
    [] d = 8 -> "8" [] d = 9 -> "9"

\* byte-wise string order: a sorts strictly before b
RECURSIVE StrLess(_, _)
StrLess(a, b) ==
  IF b = <<>> THEN FALSE
  ELSE IF a = <<>> THEN TRUE
  ELSE IF Head(a) = Head(b) THEN StrLess(Tail(a), Tail(b))
  ELSE Ord(Head(a)) < Ord(Head(b))

\* strings.HasPrefix
HasPrefix(s, p) == Len(s) >= Len(p) /\ SubSeq(s, 1, Len(p)) = p

\* strings.Index: the first 1-based position of sep in s, 0 when absent
Index(s, sep) ==
  LET at == {i \in 1..(Len(s) - Len(sep) + 1) : SubSeq(s, i, i + Len(sep) - 1) = sep}
  IN  IF at = {} THEN 0 ELSE CHOOSE i \in at : \A j \in at : i <= j

\* a cut at the last sep
CutLast(s, sep) ==
  LET at == {i \in 1..(Len(s) - Len(sep) + 1) : SubSeq(s, i, i + Len(sep) - 1) = sep}
  IN  IF at = {} THEN [before |-> s, found |-> FALSE]
      ELSE [before |-> SubSeq(s, 1, (CHOOSE i \in at : \A j \in at : i >= j) - 1),
            found |-> TRUE]

\* strings.Cut: the text before the first sep, and whether sep was found
Cut(s, sep) ==
  LET i == Index(s, sep)
  IN  IF i = 0 THEN [before |-> s, found |-> FALSE]
      ELSE [before |-> SubSeq(s, 1, i - 1), found |-> TRUE]

\* strings.TrimPrefix
TrimPrefix(s, p) == IF HasPrefix(s, p) THEN SubSeq(s, Len(p) + 1, Len(s)) ELSE s

\* filepath.Ext of a base name: the suffix starting at the last dot
Ext(s) ==
  LET dots == {i \in 1..Len(s) : s[i] = "."}
  IN  IF dots = {} THEN <<>>
      ELSE SubSeq(s, CHOOSE i \in dots : \A j \in dots : j <= i, Len(s))

\* the value of a string of digits
RECURSIVE DigitsVal(_)
DigitsVal(d) ==
  IF d = <<>> THEN 0
  ELSE 10 * DigitsVal(SubSeq(d, 1, Len(d) - 1)) + DigitVal(d[Len(d)])

\* strconv.Atoi: an optional sign and at least one digit
Atoi(s) ==
  LET signed == s # <<>> /\ s[1] \in {"+", "-"}
      body   == IF signed THEN Tail(s) ELSE s
      ok     == body # <<>> /\ \A i \in 1..Len(body) : IsDigit(body[i])
  IN  IF ~ok THEN [val |-> 0, ok |-> FALSE]
      ELSE [val |-> IF signed /\ s[1] = "-" THEN 0 - DigitsVal(body) ELSE DigitsVal(body),
            ok  |-> TRUE]

\* the decimal digits of a natural number
RECURSIVE Itoa(_)
Itoa(n) == IF n < 10 THEN <<DigitChar(n)>> ELSE Itoa(n \div 10) \o <<DigitChar(n % 10)>>

\* fmt.Sprintf("%d", n), without the width
PadNone(n) == IF n < 0 THEN <<"-">> \o Itoa(0 - n) ELSE Itoa(n)

\* fmt.Sprintf("%02d", n): the sign counts in the width
Pad2(n) ==
  IF n < 0 THEN <<"-">> \o Itoa(0 - n)
  ELSE IF n < 10 THEN <<"0">> \o Itoa(n)
  ELSE Itoa(n)

\* re.FindAllString(base, -1) for re = \d+: the maximal digit runs, left to right
RECURSIVE DigitRuns(_, _, _)
DigitRuns(s, cur, acc) ==
  IF s = <<>> THEN (IF cur = <<>> THEN acc ELSE Append(acc, cur))
  ELSE IF IsDigit(Head(s)) THEN DigitRuns(Tail(s), Append(cur, Head(s)), acc)
  ELSE DigitRuns(Tail(s), <<>>, IF cur = <<>> THEN acc ELSE Append(acc, cur))

FindAllString(base) == DigitRuns(base, <<>>, <<>>)

\* episodeRe.FindStringSubmatch(name) for episodeRe = E(\d+)\. : the digits of
\* the leftmost match, <<>> when there is no match
FindStringSubmatch(name) ==
  LET ends(i) == {j \in (i + 2)..Len(name) :
                    /\ name[j] = "."
                    /\ \A k \in (i + 1)..(j - 1) : IsDigit(name[k])}
      starts  == {i \in 1..Len(name) : name[i] = "E" /\ ends(i) # {}}
  IN  IF starts = {} THEN <<>>
      ELSE LET i == CHOOSE x \in starts : \A y \in starts : x <= y
               j == CHOOSE x \in ends(i) : TRUE
           IN  SubSeq(name, i + 1, j - 1)

(***************************************************************************)
(* Paths.  A path is a sequence of components, each a string; its last     *)
(* component is its base name.                                             *)
(***************************************************************************)

\* filepath.Base
Base(p) == p[Len(p)]

\* filepath.Dir
Dir(p) == SubSeq(p, 1, Len(p) - 1)

\* filepath.Join(dir, name)
Join(dir, name) == Append(dir, name)

(***************************************************************************)
(* Errors, named by the text of their messages; Nil is the nil error.      *)
(***************************************************************************)
Nil == "nil"
ErrInvalidSeason == "invalid season: Atoi"
ErrInvalidDirectoryStat == "invalid directory: stat"
ErrNotADirectory == "is not a directory"
ErrInvalidDirectory == "invalid directory"
ErrInvalidSeasonDirectoryStat == "invalid season directory: stat"
ErrInvalidSeasonDirectory == "invalid season directory"
ErrInvalidShowDirectory == "invalid show directory"
errNoEpisodes == "no episodes found"
ErrInvalidEpisodeStat == "invalid episode: stat"
ErrIsADirectory == "is a directory"
ErrMustContainNumber == "must contain number"
ErrInvalidMatchIndex == "invalid match index"
ErrInvalidEpisodeNumber == "invalid episode number"
ErrInvalidEpisode == "invalid episode"
ErrMkdir == "mkdir: file exists"
ErrRename == "rename: no such file or directory"
ErrRenameEnv == "rename: the system refuses it"
ErrEmptyShowName == "empty show name"
ErrInvalidYear == "invalid year: Atoi"
ErrInvalidTVDBID == "invalid TVDBID: Atoi"
ErrNoShows == "no shows found"
ErrNoShowDirectory == "no show directory for"
ErrNoSeasons == "no seasons found"
ErrNoSeasonDirectory == "no season directory in"

(***************************************************************************)
(* sortEpisodes                                                            *)
(***************************************************************************)

\* the digit run counted from one: index 1 is the first run
TokenOneBased(e, i) ==
  Atoi(FindAllString(Base(e))[IF i = 0 THEN 1 ELSE i]).val

\* the integer the comparison function reads in a path: the digit run at
\* index i (0-based) of its base name
Token(e, i) == Atoi(FindAllString(Base(e))[i + 1]).val

\* a comparison of the digit runs as strings, under which "10" precedes "9"
LessAsStrings(a, b, i) ==
  StrLess(FindAllString(Base(a))[i + 1], FindAllString(Base(b))[i + 1])

\* cmp.Compare(e1, e2) < 0 of the comparison function
Less(a, b, i) == Token(a, i) < Token(b, i)

\* In the sort below, CHOOSE r \in {Op(d) : d \in {v}} : TRUE is Op(v) with v
\* computed before Op is entered (TLC would otherwise carry the expression v
\* into the recursion and compute it at its deepest point).

\* data[i], data[j] = data[j], data[i], with Go's 0-based indices
Swap(data, i, j) ==
  [data EXCEPT ![i + 1] = data[j + 1], ![j + 1] = data[i + 1]]

\* the inner loop of insertionSortCmpFunc:
\*   for j := i; j > a && cmp(data[j], data[j-1]) < 0; j-- { swap(j, j-1) }
RECURSIVE SiftBack(_, _, _, _)
SiftBack(data, a, j, mi) ==
  IF j > a /\ Less(data[j + 1], data[j], mi)
  THEN CHOOSE r \in {SiftBack(d, a, j - 1, mi) : d \in {Swap(data, j, j - 1)}} : TRUE
  ELSE data

\* insertionSortCmpFunc(data, a, b, cmp), from index i on
RECURSIVE InsertionSortFrom(_, _, _, _, _)
InsertionSortFrom(data, a, b, i, mi) ==
  IF i >= b THEN data
  ELSE CHOOSE r \in {InsertionSortFrom(d, a, b, i + 1, mi) : d \in {SiftBack(data, a, i, mi)}} : TRUE

InsertionSort(data, a, b, mi) == InsertionSortFrom(data, a, b, a + 1, mi)

\* pdqsortCmpFunc sorts slices of at most maxInsertion elements by insertion
maxInsertion == 12

\* order2CmpFunc(data, x, y, &swaps)
Order2(data, x, y, swaps, mi) ==
  IF Less(data[y + 1], data[x + 1], mi)
  THEN [x |-> y, y |-> x, swaps |-> swaps + 1]
  ELSE [x |-> x, y |-> y, swaps |-> swaps]

\* medianCmpFunc(data, x, y, z, &swaps): the index of the median, and swaps
Median(data, x, y, z, mi) ==
  LET o1 == Order2(data, x, y, 0, mi)
      o2 == Order2(data, o1.y, z, o1.swaps, mi)
      o3 == Order2(data, o1.x, o2.x, o2.swaps, mi)
  IN  [pivot |-> o3.y, swaps |-> o3.swaps]

\* choosePivotCmpFunc(data, a, b) for 8 <= b-a < 50: the median of three, and
\* whether the three were in order (increasingHint)
ChoosePivot(data, a, b, mi) ==
  LET l == b - a
      m == Median(data, a + (l \div 4) * 1, a + (l \div 4) * 2, a + (l \div 4) * 3, mi)
  IN  [pivot |-> m.pivot, increasing |-> m.swaps = 0]

\* partialInsertionSortCmpFunc(data, a, b) for b-a < 50 moves nothing: it
\* reports whether the range is already sorted
PartialInsertionSort(data, a, b, mi) ==
  \A i \in (a + 1)..(b - 1) : ~Less(data[i + 1], data[i], mi)

\* for i <= j && cmp(data[i], data[a]) < 0 { i++ }
RECURSIVE ScanUp(_, _, _, _, _)
ScanUp(data, a, i, j, mi) ==
  IF i <= j /\ Less(data[i + 1], data[a + 1], mi) THEN ScanUp(data, a, i + 1, j, mi) ELSE i

\* for i <= j && !(cmp(data[j], data[a]) < 0) { j-- }
RECURSIVE ScanDown(_, _, _, _, _)
ScanDown(data, a, i, j, mi) ==
  IF i <= j /\ ~Less(data[j + 1], data[a + 1], mi) THEN ScanDown(data, a, i, j - 1, mi) ELSE j

\* the loop of partitionCmpFunc, entered with i and j after a swap
RECURSIVE PartitionLoop(_, _, _, _, _)
PartitionLoop(data, a, i, j, mi) ==
  LET i2 == ScanUp(data, a, i, j, mi)
      j2 == ScanDown(data, a, i2, j, mi)
  IN  IF i2 > j2 THEN [data |-> Swap(data, j2, a), mid |-> j2]
      ELSE CHOOSE r \in {PartitionLoop(d, a, i2 + 1, j2 - 1, mi) : d \in {Swap(data, i2, j2)}} : TRUE

\* partitionCmpFunc(data, a, b, pivot): the pivot goes first, the smaller
\* elements are moved before the others, the pivot is put between them
Partition(data, a, b, pivot, mi) ==
  CHOOSE r \in {PartitionLoop(d, a, a + 1, b - 1, mi) : d \in {Swap(data, a, pivot)}} : TRUE

\* the two recursive calls of pdqsortCmpFunc after a partition p, on sides
\* that are short enough for insertion sort
SortSides(p, a, b, mi) ==
  CHOOSE r \in {InsertionSort(left, p.mid + 1, b, mi) :
                  left \in {InsertionSort(p.data, a, p.mid, mi)}} : TRUE

\* pdqsortCmpFunc(data, a, b, limit) for maxInsertion < b-a <= maxInsertion+1:
\* one partition, whose two sides are then short enough for insertion sort
\* (longer slices, which the model has none of, would need breakPatterns and
\* heapSort)
Pdqsort(data, a, b, mi) ==
  IF b - a <= maxInsertion THEN InsertionSort(data, a, b, mi)
  ELSE CHOOSE r \in
         {IF c.increasing /\ PartialInsertionSort(data, a, b, mi) THEN data
          ELSE CHOOSE s \in
                 {SortSides(p, a, b, mi) :
                    p \in {Partition(data, a, b, c.pivot, mi)}} : TRUE :
            c \in {ChoosePivot(data, a, b, mi)}} : TRUE

\* slices.SortFunc(eps, cmp)
SortFunc(eps, mi) == Pdqsort(eps, 0, Len(eps), mi)

\* a loop that checks the index before the number of digit runs
RECURSIVE CheckEpisodesIndexFirst(_, _)
CheckEpisodesIndexFirst(eps, i) ==
  IF eps = <<>> THEN Nil
  ELSE LET m == FindAllString(Base(Head(eps)))
       IN  IF i < 0 \/ i >= Len(m) THEN ErrInvalidMatchIndex
           ELSE IF Len(m) = 0 THEN ErrMustContainNumber
           ELSE CheckEpisodesIndexFirst(Tail(eps), i)

\* a loop that takes the index to be 1-based and refuses index 0
RECURSIVE CheckEpisodesOffByOne(_, _)
CheckEpisodesOffByOne(eps, i) ==
  IF eps = <<>> THEN Nil
  ELSE LET m == FindAllString(Base(Head(eps)))
       IN  IF Len(m) = 0 THEN ErrMustContainNumber
           ELSE IF i < 1 \/ i >= Len(m) THEN ErrInvalidMatchIndex
           ELSE CheckEpisodesOffByOne(Tail(eps), i)

\* the validation loop of sortEpisodes: the error of the first file that has
\* one, in batch order
RECURSIVE CheckEpisodes(_, _)
CheckEpisodes(eps, i) ==
  IF eps = <<>> THEN Nil
  ELSE LET m == FindAllString(Base(Head(eps)))
       IN  IF Len(m) = 0 THEN ErrMustContainNumber
           ELSE IF i < 0 \/ i >= Len(m) THEN ErrInvalidMatchIndex
           ELSE CheckEpisodes(Tail(eps), i)

\* sortEpisodes(eps, i): the error, and the slice as it is left
sortEpisodes(eps, i) ==
  LET err == CheckEpisodes(eps, i)
  IN  IF err # Nil THEN [err |-> err, eps |-> eps]
      ELSE [err |-> Nil, eps |-> SortFunc(eps, i)]


(***************************************************************************)
(* The filesystem: the set of directories and the regular files with their *)
(* content.  A file's content names the path it was created at, so a moved *)
(* file can be told from every other.                                      *)
(***************************************************************************)
VARIABLES
  dirs,     \* the paths that are directories
  files,    \* path of a regular file |-> its content
  pc,       \* "idle", "go" (the g.Go loop), "wait" (g.Wait), "returned"
  call,     \* the running operation and its argument
  loc,      \* its local variables once validation has passed
  next,     \* the loop index of the g.Go loop: tasks dispatched so far
  task,     \* per batch position: "none", "running", "ok", "failed"
  gerr,     \* errgroup.Group.err, the first error a task returned
  result,   \* the error the operation returned
  nops,     \* operations started so far
  pre,      \* history: the filesystem when the running operation was called
  made      \* history: the season directories made by a successful MkSeason
            \* and used since by successful AddEpisodes only

vars == <<dirs, files, pc, call, loc, next, task, gerr, result, nops, pre, made>>

\* os.Stat(p): what is at the path
Stat(p, fs) ==
  IF p \in fs.dirs THEN "dir" ELSE IF p \in DOMAIN fs.files THEN "file" ELSE "none"

\* os.ReadDir(dir): the names of the entries of dir (the order is StrLess)
ReadDir(dir, fs) ==
  {Base(p) : p \in {q \in fs.dirs \cup DOMAIN fs.files : q # <<>> /\ Dir(q) = dir}}

\* ents[0].Name()
FirstEntry(ents) == CHOOSE e \in ents : \A o \in ents : o = e \/ StrLess(e, o)

\* ents[len(ents)-1].Name(): os.ReadDir sorts by file name
LastEntry(ents) == CHOOSE e \in ents : \A o \in ents : o = e \/ StrLess(o, e)

\* a Mkdir that accepts a directory that is already there
MkdirIfAbsent(p, fs) ==
  IF Stat(p, fs) = "file" \/ Dir(p) \notin fs.dirs
  THEN [err |-> ErrMkdir, fs |-> fs]
  ELSE [err |-> Nil, fs |-> [fs EXCEPT !.dirs = @ \cup {p}]]

\* os.Mkdir(p): fails when something is at p or its parent is no directory
Mkdir(p, fs) ==
  IF Stat(p, fs) # "none" \/ Dir(p) \notin fs.dirs
  THEN [err |-> ErrMkdir, fs |-> fs]
  ELSE [err |-> Nil, fs |-> [fs EXCEPT !.dirs = @ \cup {p}]]

\* os.Rename(old, new) of a regular file: replaces a file at new
Rename(old, new, fs) ==
  IF old \notin DOMAIN fs.files \/ Dir(new) \notin fs.dirs \/ new \in fs.dirs
  THEN [err |-> ErrRename, fs |-> fs]
  ELSE [err |-> Nil,
        fs  |-> [fs EXCEPT !.files =
                   [q \in (DOMAIN fs.files \ {old}) \cup {new} |->
                      IF q = new THEN fs.files[old] ELSE fs.files[q]]]]

\* the filesystem of the current state
FS == [dirs |-> dirs, files |-> files]

(***************************************************************************)
(* MkSeason and AddEpisodes                                                *)
(***************************************************************************)

YearSep == <<" ", "(">>

SeasonPrefix == <<"S", "e", "a", "s", "o", "n", " ">>

\* fmt.Sprintf("Season %02d", n)
SeasonName(n) == SeasonPrefix \o Pad2(n)

\* fmt.Sprintf("%s S%02dE%02d%s", show, n, k, filepath.Ext(e))
EpisodeName(show, n, k, e) ==
  show \o <<" ", "S">> \o Pad2(n) \o <<"E">> \o Pad2(k) \o Ext(Base(e))

\* a length check that lets every batch pass
AnyBatch(eps) == FALSE

\* len(s.Episodes) == 0
NoEpisodes(eps) == Len(eps) = 0

\* a loop that lets directories pass
RECURSIVE StatEpisodesNoDirCheck(_, _)
StatEpisodesNoDirCheck(eps, fs) ==
  IF eps = <<>> THEN Nil
  ELSE IF Stat(Head(eps), fs) = "none" THEN ErrInvalidEpisodeStat
  ELSE StatEpisodesNoDirCheck(Tail(eps), fs)

\* a check of the first episode only
StatEpisodesFirstOnly(eps, fs) ==
  IF eps = <<>> THEN Nil
  ELSE IF Stat(Head(eps), fs) = "none" THEN ErrInvalidEpisodeStat
  ELSE IF Stat(Head(eps), fs) = "dir" THEN ErrIsADirectory
  ELSE Nil

\* the first error of the loop that stats every episode, in batch order
RECURSIVE StatEpisodes(_, _)
StatEpisodes(eps, fs) ==
  IF eps = <<>> THEN Nil
  ELSE IF Stat(Head(eps), fs) = "none" THEN ErrInvalidEpisodeStat
  ELSE IF Stat(Head(eps), fs) = "dir" THEN ErrIsADirectory
  ELSE StatEpisodes(Tail(eps), fs)

NoLoc == [eps |-> <<>>, show |-> <<>>, n |-> 0, epn |-> 0, seasonDir |-> <<>>]

\* MkSeason up to the g.Go loop: the error returned before it (Nil when the
\* loop is entered), the filesystem as it is left and the local variables
MkSeasonEnter(s, fs) ==
  LET n    == Atoi(s.N)
      cut  == Cut(Base(s.ShowDir), YearSep)
      estat == StatEpisodes(s.Episodes, fs)
      sorted == sortEpisodes(s.Episodes, s.MatchIndex)
      seasonDir == Join(s.ShowDir, SeasonName(n.val))
      mk   == Mkdir(seasonDir, fs)
      fail(e) == [err |-> e, fs |-> fs, loc |-> NoLoc]
  IN  IF ~n.ok THEN fail(ErrInvalidSeason)
      ELSE IF Stat(s.ShowDir, fs) = "none" THEN fail(ErrInvalidDirectoryStat)
      ELSE IF Stat(s.ShowDir, fs) # "dir" THEN fail(ErrNotADirectory)
      ELSE IF ~cut.found THEN fail(ErrInvalidDirectory)
      ELSE IF NoEpisodes(s.Episodes) THEN fail(errNoEpisodes)
      ELSE IF estat # Nil THEN fail(estat)
      ELSE IF sorted.err # Nil THEN fail(sorted.err)
      ELSE IF mk.err # Nil THEN fail(mk.err)
      ELSE [err |-> Nil, fs |-> mk.fs,
            loc |-> [eps |-> sorted.eps, show |-> cut.before, n |-> n.val,
                     epn |-> 0, seasonDir |-> seasonDir]]

\* var epn int; if len(ents) > 0 { ... }: the error and epn after the block
\* that reads the episode number of the last entry
PrevEpisodeNumber(ents) ==
  IF ents = {} THEN [err |-> Nil, epn |-> 0]
  ELSE CHOOSE r \in {IF m = <<>> THEN [err |-> ErrInvalidEpisode, epn |-> 0]
                     ELSE [err |-> Nil, epn |-> Atoi(m).val] :
                       m \in {FindStringSubmatch(prevEp) : prevEp \in {LastEntry(ents)}}} : TRUE

\* an AddEpisodes that reads the season directory before it looks at the batch
AddEpisodesReadDirFirst(a, fs) ==
  LET base   == Base(a.SeasonDir)
      season == TrimPrefix(base, SeasonPrefix)
      n      == Atoi(season)
      showDir == Dir(a.SeasonDir)
      cut    == Cut(Base(showDir), YearSep)
      estat  == StatEpisodes(a.Episodes, fs)
      sorted == sortEpisodes(a.Episodes, a.MatchIndex)
      prev   == PrevEpisodeNumber(ReadDir(a.SeasonDir, fs))
      fail(e) == [err |-> e, fs |-> fs, loc |-> NoLoc]
  IN  IF Stat(a.SeasonDir, fs) = "none" THEN fail(ErrInvalidSeasonDirectoryStat)
      ELSE IF Stat(a.SeasonDir, fs) # "dir" THEN fail(ErrNotADirectory)
      ELSE IF base = season THEN fail(ErrInvalidSeasonDirectory)
      ELSE IF ~n.ok THEN fail(ErrInvalidSeason)
      ELSE IF ~cut.found THEN fail(ErrInvalidShowDirectory)
      ELSE IF prev.err # Nil THEN fail(prev.err)
      ELSE IF NoEpisodes(a.Episodes) THEN fail(errNoEpisodes)
      ELSE IF estat # Nil THEN fail(estat)
      ELSE IF sorted.err # Nil THEN fail(sorted.err)
      ELSE [err |-> Nil, fs |-> fs,
            loc |-> [eps |-> sorted.eps, show |-> cut.before, n |-> n.val,
                     epn |-> prev.epn, seasonDir |-> a.SeasonDir]]

\* AddEpisodes up to the g.Go loop
AddEpisodesEnter(a, fs) ==
  LET base   == Base(a.SeasonDir)
      season == TrimPrefix(base, SeasonPrefix)
      n      == Atoi(season)
      showDir == Dir(a.SeasonDir)
      cut    == Cut(Base(showDir), YearSep)
      estat  == StatEpisodes(a.Episodes, fs)
      sorted == sortEpisodes(a.Episodes, a.MatchIndex)
      prev   == PrevEpisodeNumber(ReadDir(a.SeasonDir, fs))
      fail(e) == [err |-> e, fs |-> fs, loc |-> NoLoc]
  IN  IF Stat(a.SeasonDir, fs) = "none" THEN fail(ErrInvalidSeasonDirectoryStat)
      ELSE IF Stat(a.SeasonDir, fs) # "dir" THEN fail(ErrNotADirectory)
      ELSE IF base = season THEN fail(ErrInvalidSeasonDirectory)
      ELSE IF ~n.ok THEN fail(ErrInvalidSeason)
      ELSE IF ~cut.found THEN fail(ErrInvalidShowDirectory)
      ELSE IF NoEpisodes(a.Episodes) THEN fail(errNoEpisodes)
      ELSE IF estat # Nil THEN fail(estat)
      ELSE IF sorted.err # Nil THEN fail(sorted.err)
      ELSE IF prev.err # Nil THEN fail(prev.err)
      ELSE [err |-> Nil, fs |-> fs,
            loc |-> [eps |-> sorted.eps, show |-> cut.before, n |-> n.val,
                     epn |-> prev.epn, seasonDir |-> a.SeasonDir]]

\* a numbering that starts at the loop index itself
EpisodeNumberFromZero(epn, i) == epn + i

\* the episode number of the file at index i (0-based) of the sorted batch:
\* i+1 in MkSeason, where epn is 0, and epn+i+1 in AddEpisodes
EpisodeNumber(epn, i) == epn + i + 1

\* every task reads the loop variable after the loop has ended
TargetSharedLoopVar(l, i) ==
  Join(l.seasonDir,
       EpisodeName(l.show, l.n, l.epn + Len(l.eps), l.eps[i + 1]))

\* the path the task of index i (0-based) renames its episode to
Target(l, i) ==
  Join(l.seasonDir, EpisodeName(l.show, l.n, EpisodeNumber(l.epn, i), l.eps[i + 1]))


(***************************************************************************)
(* The bounds, and the names the operations are called with                *)
(***************************************************************************)
MaxBatch == 2     \* the longest batch of one call
MaxOps == 2       \* the number of operations of one run

Media == << <<"m">> >>
Downloads == << <<"d">> >>

\* show directories: "X (2)", "E1. (2)" (whose show name "E1." itself matches
\* episodeRe), and "X(2)", which lacks the separator
ShowX == Join(Media, <<"X", " ", "(", "2", ")">>)
ShowE == Join(Media, <<"E", "1", ".", " ", "(", "2", ")">>)
ShowNoSep == Join(Media, <<"X", "(", "2", ")">>)
\* "B (1) (2)", with the separator twice: a directory of the library that
\* already holds a season
ShowTwoSep == Join(Media, <<"B", " ", "(", "1", ")", " ", "(", "2", ")">>)
\* a regular file, and a path nothing is at
ShowFile == Join(Media, <<"f">>)
ShowMissing == Join(Media, <<"n">>)

\* the episode paths: e9.m, e10.m, s2e1.k (two digit runs), ex.m (no digit
\* run), d3 (a directory), n4.m (nothing there)
E9 == Join(Downloads, <<"e", "9", ".", "m">>)
E10 == Join(Downloads, <<"e", "1", "0", ".", "m">>)
S2E1 == Join(Downloads, <<"s", "2", "e", "1", ".", "k">>)
EX == Join(Downloads, <<"e", "x", ".", "m">>)
D3 == Join(Downloads, <<"d", "3">>)
N4 == Join(Downloads, <<"n", "4", ".", "m">>)

EpisodeFiles == {E9, E10, S2E1, EX}
EpisodePaths == EpisodeFiles \cup {D3, N4}

InitDirs == {Media, Downloads, ShowX, ShowE, ShowNoSep, D3}
InitFiles == [p \in EpisodeFiles \cup {ShowFile} |-> p]

Batches == UNION {[1..k -> EpisodePaths] : k \in 0..MaxBatch}
MatchIndexes == {-1, 0, 1}

\* the Season values MkSeason is called with
Seasons ==
  {[N |-> <<"1">>, ShowDir |-> d, Episodes |-> b, MatchIndex |-> m] :
     d \in {ShowX, ShowE, ShowNoSep, ShowTwoSep, ShowFile, ShowMissing},
     b \in Batches, m \in MatchIndexes}
  \cup {[N |-> <<"x">>, ShowDir |-> ShowX, Episodes |-> b, MatchIndex |-> m] :
     b \in Batches, m \in MatchIndexes}

\* "Season 01" of "X(2)" and "Season 02" of "B (1) (2)"
SeasonNoSep == Join(ShowNoSep, SeasonName(1))
SeasonTwoSep == Join(ShowTwoSep, SeasonName(2))

\* "Season -1", "Season " and "Season x" of "X (2)"
SeasonNeg == Join(ShowX, SeasonPrefix \o <<"-", "1">>)
SeasonEmpty == Join(ShowX, SeasonPrefix)
SeasonWord == Join(ShowX, SeasonPrefix \o <<"x">>)

\* the season directories AddEpisodes is called with: those of the shows, a
\* directory without the "Season " prefix, a file, a missing path
SeasonDirArgs ==
  {Join(d, SeasonName(1)) : d \in {ShowX, ShowE}}
  \cup {SeasonNoSep, SeasonTwoSep, SeasonNeg, SeasonEmpty, SeasonWord}
  \cup {ShowNoSep, ShowFile, ShowMissing}

Additions ==
  {[SeasonDir |-> d, Episodes |-> b, MatchIndex |-> m] :
     d \in SeasonDirArgs, b \in Batches, m \in MatchIndexes}

NoCall == [kind |-> "none"]

Init ==
  /\ dirs = InitDirs
  /\ files = InitFiles
  /\ pc = "idle"
  /\ call = NoCall
  /\ loc = NoLoc
  /\ next = 0
  /\ task = <<>>
  /\ gerr = Nil
  /\ result = Nil
  /\ nops = 0
  /\ pre = [dirs |-> InitDirs, files |-> InitFiles]
  /\ made = {}

\* the operation is called and runs up to its g.Go loop, or to the return
\* of an error
Enter(kind, arg, r) ==
  /\ nops' = nops + 1
  /\ call' = [kind |-> kind, arg |-> arg]
  /\ pre' = FS
  /\ dirs' = r.fs.dirs
  /\ files' = r.fs.files
  /\ loc' = r.loc
  /\ next' = 0
  /\ task' = [i \in 1..Len(r.loc.eps) |-> "none"]
  /\ gerr' = Nil
  /\ result' = r.err
  /\ pc' = IF r.err = Nil THEN "go" ELSE "returned"
  /\ UNCHANGED made

CallMkSeason ==
  /\ pc = "idle"
  /\ nops < MaxOps
  /\ \E s \in Seasons : \E r \in {MkSeasonEnter(s, FS)} : Enter("MkSeason", s, r)

CallAddEpisodes ==
  /\ pc = "idle"
  /\ nops < MaxOps
  /\ \E a \in Additions : \E r \in {AddEpisodesEnter(a, FS)} : Enter("AddEpisodes", a, r)

\* a loop that leaves the last file of a longer batch out
GoStopsEarly ==
  /\ pc = "go"
  /\ next < Len(loc.eps)
  /\ task' = [task EXCEPT ![next + 1] = "running"]
  /\ next' = next + 1
  /\ pc' = IF next + 2 >= Len(loc.eps) THEN "wait" ELSE "go"
  /\ UNCHANGED <<dirs, files, call, loc, gerr, result, nops, pre, made>>

\* one iteration of "for i, e := range Episodes { g.Go(...) }": the task of
\* index next is started; after the last one the operation is in g.Wait()
Go ==
  /\ pc = "go"
  /\ next < Len(loc.eps)
  /\ task' = [task EXCEPT ![next + 1] = "running"]
  /\ next' = next + 1
  /\ pc' = IF next + 1 = Len(loc.eps) THEN "wait" ELSE "go"
  /\ UNCHANGED <<dirs, files, call, loc, gerr, result, nops, pre, made>>

\* a group that stops running its tasks once one of them has failed
CanRunUntilError(i) == task[i + 1] = "running" /\ gerr = Nil

\* the task of index i has been started by g.Go and has not returned: an
\* errgroup.Group without a context cancels nothing
CanRun(i) == task[i + 1] = "running"

\* a group that keeps the result of the task that returned last
LastResult(g, e) == e

\* the group's error after a task has returned e: the first error is kept
\* (errOnce), a nil result changes nothing
FirstError(g, e) == IF e # Nil /\ g = Nil THEN e ELSE g

\* the task of index i runs: it renames its episode, and the group keeps the
\* first error
RunTask(i) ==
  /\ CanRun(i)
  /\ LET r == Rename(loc.eps[i + 1], Target(loc, i), FS)
     IN  /\ files' = r.fs.files
         /\ task' = [task EXCEPT ![i + 1] = IF r.err = Nil THEN "ok" ELSE "failed"]
         /\ gerr' = FirstError(gerr, r.err)
  /\ UNCHANGED <<dirs, pc, call, loc, next, result, nops, pre, made>>

Task == \E i \in 0..(MaxBatch - 1) : i < Len(task) /\ RunTask(i)

\* a Wait that returns as soon as one task has finished
WaitDoneAny == \E i \in 1..Len(task) : task[i] \in {"ok", "failed"}

\* whether g.Wait() can return: every started task has finished
WaitDone == \A i \in 1..Len(task) : task[i] \in {"ok", "failed"}

\* an operation that undoes its moves and its directory when a task failed
WaitWithRollback ==
  /\ pc = "wait"
  /\ WaitDone
  /\ result' = gerr
  /\ pc' = "returned"
  /\ dirs' = IF gerr # Nil THEN pre.dirs ELSE dirs
  /\ files' = IF gerr # Nil THEN pre.files ELSE files
  /\ UNCHANGED <<call, loc, next, task, gerr, nops, pre, made>>

\* g.Wait() returns the group's error and the operation returns it
Wait ==
  /\ pc = "wait"
  /\ WaitDone
  /\ result' = gerr
  /\ pc' = "returned"
  /\ UNCHANGED <<dirs, files, call, loc, next, task, gerr, nops, pre, made>>

\* the season directory the running operation fills
OpSeasonDir == loc.seasonDir

\* the caller has the result; the next operation can be called
Return ==
  /\ pc = "returned"
  /\ pc' = "idle"
  /\ made' = IF result # Nil THEN made \ {OpSeasonDir}
             ELSE IF call.kind = "MkSeason" THEN made \cup {OpSeasonDir}
             ELSE made
  /\ call' = NoCall
  /\ loc' = NoLoc
  /\ next' = 0
  /\ task' = <<>>
  /\ gerr' = Nil
  /\ result' = Nil
  /\ pre' = FS
  /\ UNCHANGED <<dirs, files, nops>>

Next == CallMkSeason \/ CallAddEpisodes \/ Go \/ Task \/ Wait \/ Return

Spec == Init /\ [][Next]_vars

(***************************************************************************)
(* One operation on a library that already holds a season, with an         *)
(* os.Rename that can also fail for reasons outside the model (a           *)
(* permission, a full or read-only disk): the task then returns an error   *)
(* and the file stays where it is.                                         *)
(***************************************************************************)
\* "X (2)/Season 01" holds one entry; "X(2)/Season 01" and
\* "B (1) (2)/Season 02" are there too, and empty, and so are "Season -1",
\* "Season " and "Season x" of "X (2)"
SeasonX == Join(ShowX, SeasonName(1))

\* the names the entry of "X (2)/Season 01" can have: "X S01E01.m", and names
\* without "E", without ".", with every "." before the "E", and with a
\* letter between "E" and "."
PrevNames ==
  {<<"X", " ", "S", "0", "1", "E", "0", "1", ".", "m">>,
   <<"X", " ", "S", "0", "1", "0", "1", ".", "m">>,
   <<"X", " ", "S", "0", "1", "E", "0", "1", "m">>,
   <<"X", " ", "S", "0", "1", ".", "0", "1", "E", "m">>,
   <<"X", " ", "S", "0", "1", "E", "0", "A", ".", "m">>}

\* the listings of "X (2)/Season 01": one of these names, or "X S01E05.m"
\* with "X S01E1.m", which sorts last and has the lower number
PrevListings ==
  {{n} : n \in PrevNames}
  \cup {{<<"X", " ", "S", "0", "1", "E", "0", "5", ".", "m">>,
         <<"X", " ", "S", "0", "1", "E", "1", ".", "m">>}}

EnvDirs ==
  InitDirs \cup {SeasonX, SeasonNoSep, ShowTwoSep, SeasonTwoSep, SeasonNeg, SeasonEmpty, SeasonWord}

InitEnv ==
  /\ dirs = EnvDirs
  /\ \E prev \in PrevListings :
       files = [p \in DOMAIN InitFiles \cup {Join(SeasonX, n) : n \in prev} |->
                  IF p \in DOMAIN InitFiles THEN InitFiles[p] ELSE p]
  /\ pc = "idle"
  /\ call = NoCall
  /\ loc = NoLoc
  /\ next = 0
  /\ task = <<>>
  /\ gerr = Nil
  /\ result = Nil
  /\ nops = MaxOps - 1
  /\ pre = [dirs |-> dirs, files |-> files]
  /\ made = {}

\* the task of index i runs and os.Rename fails without moving the file
RenameFails(i) ==
  /\ CanRun(i)
  /\ task' = [task EXCEPT ![i + 1] = "failed"]
  /\ gerr' = FirstError(gerr, ErrRenameEnv)
  /\ UNCHANGED <<dirs, files, pc, call, loc, next, result, nops, pre, made>>

TaskFails == \E i \in 0..(MaxBatch - 1) : i < Len(task) /\ RenameFails(i)

NextEnv == CallMkSeason \/ CallAddEpisodes \/ Go \/ Task \/ TaskFails \/ Wait \/ Return

SpecEnv == InitEnv /\ [][NextEnv]_vars

\* the same with its scheduling: the loop of g.Go calls goes on, every
\* started task runs until os.Rename returns (with or without an error), and
\* g.Wait() returns once it can
Scheduling ==
  /\ WF_vars(Go)
  /\ \A i \in 0..(MaxBatch - 1) :
       WF_vars(i < Len(task) /\ (RunTask(i) \/ RenameFails(i)))
  /\ WF_vars(Wait)

SpecLive == InitEnv /\ [][NextEnv]_vars /\ Scheduling

(***************************************************************************)
(* MkSeason on the show directory "The Office (2005) [tvdbid-73244]", with *)
(* the files ep1.mkv, ep2.mkv, ep3.avi and ep4 (no extension), and season  *)
(* numbers of one, two and three digits.                                   *)
(***************************************************************************)
Office ==
  Join(Media,
    <<"T", "h", "e", " ", "O", "f", "f", "i", "c", "e", " ", "(", "2", "0",
      "0", "5", ")", " ", "[", "t", "v", "d", "b", "i", "d", "-", "7", "3",
      "2", "4", "4", "]">>)

Ep1 == Join(Downloads, <<"e", "p", "1", ".", "m", "k", "v">>)
Ep2 == Join(Downloads, <<"e", "p", "2", ".", "m", "k", "v">>)
Ep3 == Join(Downloads, <<"e", "p", "3", ".", "a", "v", "i">>)
Ep4 == Join(Downloads, <<"e", "p", "4">>)

OfficeFiles == {Ep1, Ep2, Ep3, Ep4}

\* the season numbers "3", "03", "12" and "100"
OfficeNumbers == {<<"3">>, <<"0", "3">>, <<"1", "2">>, <<"1", "0", "0">>}

OfficeSeasons ==
  {[N |-> n, ShowDir |-> Office, Episodes |-> b, MatchIndex |-> m] :
     n \in OfficeNumbers,
     b \in UNION {[1..k -> OfficeFiles] : k \in 1..MaxBatch},
     m \in {0, 1}}

InitOffice ==
  /\ dirs = {Media, Downloads, Office}
  /\ files = [p \in OfficeFiles |-> p]
  /\ pc = "idle"
  /\ call = NoCall
  /\ loc = NoLoc
  /\ next = 0
  /\ task = <<>>
  /\ gerr = Nil
  /\ result = Nil
  /\ nops = MaxOps - 1
  /\ pre = [dirs |-> dirs, files |-> files]
  /\ made = {}

CallMkSeasonOffice ==
  /\ pc = "idle"
  /\ nops < MaxOps
  /\ \E s \in OfficeSeasons : \E r \in {MkSeasonEnter(s, FS)} : Enter("MkSeason", s, r)

NextOffice == CallMkSeasonOffice \/ Go \/ Task \/ Wait \/ Return

SpecOffice == InitOffice /\ [][NextOffice]_vars

(***************************************************************************)
(* torrent.Rename: the show directory of t.Dir whose show name t.Name      *)
(* contains, its season directory, and media.AddEpisodes of the one file   *)
(* t.Dir/t.Name to that directory.                                         *)
(***************************************************************************)
\* the entries os.ReadDir returns, in the order it returns them
RECURSIVE SortedNames(_)
SortedNames(names) ==
  IF names = {} THEN <<>>
  ELSE \* the byte-wise least name first
       CHOOSE r \in {<<m>> \o SortedNames(names \ {m}) :
                       m \in {x \in names : \A y \in names : y = x \/ StrLess(x, y)}} : TRUE

\* strings.Contains
Contains(str, sub) == Index(str, sub) # 0

\* the loop over the entries of t.Dir: the path of the first directory whose
\* name has the year separator and whose show name t.Name contains; <<>> is
\* the empty showDir
RECURSIVE FindShowDir(_, _, _)
FindShowDir(ents, t, fs) ==
  IF ents = <<>> THEN <<>>
  ELSE IF Stat(Join(t.Dir, Head(ents)), fs) # "dir" THEN FindShowDir(Tail(ents), t, fs)
  ELSE IF ~Cut(Head(ents), YearSep).found THEN FindShowDir(Tail(ents), t, fs)
  ELSE IF Contains(t.Name, Cut(Head(ents), YearSep).before) THEN Join(t.Dir, Head(ents))
  ELSE FindShowDir(Tail(ents), t, fs)

\* the loop over the entries of showDir, with the values of largest and
\* seasonDir before it: the error it returns, and seasonDir after it
RECURSIVE FindSeasonDir(_, _, _, _, _)
FindSeasonDir(ents, showDir, fs, largest, seasonDir) ==
  IF ents = <<>> THEN [err |-> Nil, seasonDir |-> seasonDir]
  ELSE IF Stat(Join(showDir, Head(ents)), fs) # "dir"
    THEN FindSeasonDir(Tail(ents), showDir, fs, largest, seasonDir)
  ELSE IF Head(ents) = TrimPrefix(Head(ents), SeasonPrefix)
    THEN FindSeasonDir(Tail(ents), showDir, fs, largest, seasonDir)
  ELSE IF ~Atoi(TrimPrefix(Head(ents), SeasonPrefix)).ok
    THEN [err |-> ErrInvalidSeason, seasonDir |-> seasonDir]
  ELSE IF Atoi(TrimPrefix(Head(ents), SeasonPrefix)).val > largest
    THEN FindSeasonDir(Tail(ents), showDir, fs,
                       Atoi(TrimPrefix(Head(ents), SeasonPrefix)).val,
                       Join(showDir, Head(ents)))
  ELSE FindSeasonDir(Tail(ents), showDir, fs, largest, seasonDir)

\* the Addition Rename passes to media.AddEpisodes (MatchIndex is zero)
AdditionOf(t, seasonDir) ==
  [SeasonDir |-> seasonDir, Episodes |-> <<Join(t.Dir, t.Name)>>, MatchIndex |-> 0]

\* Rename up to the g.Go loop of AddEpisodes: "var largest int" is 0 and
\* "var seasonDir string" is empty before the loop over the seasons
RenameEnter(t, fs) ==
  LET fail(e) == [err |-> e, fs |-> fs, loc |-> NoLoc]
  IN  IF Stat(t.Dir, fs) = "none" THEN fail(ErrInvalidDirectoryStat)
      ELSE IF Stat(t.Dir, fs) # "dir" THEN fail(ErrNotADirectory)
      ELSE IF ReadDir(t.Dir, fs) = {} THEN fail(ErrNoShows)
      ELSE CHOOSE r \in
        {IF showDir = <<>> THEN fail(ErrNoShowDirectory)
         ELSE IF ReadDir(showDir, fs) = {} THEN fail(ErrNoSeasons)
         ELSE CHOOSE q \in
           {IF sel.err # Nil THEN fail(sel.err)
            ELSE IF sel.seasonDir = <<>> THEN fail(ErrNoSeasonDirectory)
            ELSE AddEpisodesEnter(AdditionOf(t, sel.seasonDir), fs) :
              sel \in {FindSeasonDir(SortedNames(ReadDir(showDir, fs)), showDir, fs, 0, <<>>)}} : TRUE :
           showDir \in {FindShowDir(SortedNames(ReadDir(t.Dir, fs)), t, fs)}} : TRUE

\* the directories "X (2)" can hold: "Season 00", "Season 01", "Season 02",
\* "Season 10", "Season -1", "Season x" and "season1"; and a regular file
\* "Season 03"
SeasonDirNames ==
  {SeasonName(0), SeasonName(1), SeasonName(2), SeasonName(10),
   SeasonPrefix \o <<"-", "1">>, SeasonPrefix \o <<"x">>,
   <<"s", "e", "a", "s", "o", "n", "1">>}
SeasonFile == Join(ShowX, SeasonName(3))

\* the downloaded files "X 9.m", in the library and in the downloads, and
\* the torrents: "e9.m" has the name of no show; a directory that is
\* missing, a file, or empty ("d3") holds no show
X9 == <<"X", " ", "9", ".", "m">>
Torrents ==
  {[Dir |-> d, Name |-> n, DstDir |-> dst] :
     d \in {Media, Downloads}, n \in {X9, Base(E9)}, dst \in {Media, ShowMissing}}
  \cup {[Dir |-> d, Name |-> X9, DstDir |-> Media] : d \in {ShowMissing, ShowFile, D3}}

InitTorrent ==
  /\ \E held \in SUBSET SeasonDirNames : dirs = InitDirs \cup {Join(ShowX, n) : n \in held}
  /\ \E held \in SUBSET {SeasonFile} :
       files = [p \in DOMAIN InitFiles \cup {Join(Media, X9), Join(Downloads, X9)} \cup held |-> p]
  /\ pc = "idle"
  /\ call = NoCall
  /\ loc = NoLoc
  /\ next = 0
  /\ task = <<>>
  /\ gerr = Nil
  /\ result = Nil
  /\ nops = MaxOps - 1
  /\ pre = [dirs |-> dirs, files |-> files]
  /\ made = {}

CallRename ==
  /\ pc = "idle"
  /\ nops < MaxOps
  /\ \E t \in Torrents : \E r \in {RenameEnter(t, FS)} : Enter("Rename", t, r)

NextTorrent == CallRename \/ Go \/ Task \/ Wait \/ Return

SpecTorrent == InitTorrent /\ [][NextTorrent]_vars

(***************************************************************************)
(* MkShow, and MkSeason and AddEpisodes on the directories it makes and on *)
(* show directories with nothing before the year: "(2)" and " (2)".  The   *)
(* files are e9.m, e10.m, s2e1.k and e8, which has no extension.           *)
(***************************************************************************)
\* fmt.Sprintf("%d", n)
FormatInt(n) == IF n < 0 THEN <<"-">> \o Itoa(0 - n) ELSE Itoa(n)

\* fmt.Sprintf("%s (%d) [tvdbid-%d]", name, year, tvdbid)
ShowDirName(name, year, tvdbid) ==
  name \o <<" ", "(">> \o FormatInt(year) \o <<")", " ", "[", "t", "v", "d", "b", "i", "d", "-">>
    \o FormatInt(tvdbid) \o <<"]">>

\* os.MkdirAll(p) for p = dir/name: nothing to do when p is a directory, an
\* error when p is a file or dir is no directory (dir has a parent directory
\* or does not exist in the calls of the model, where it is made as well)
MkdirAll(p, fs) ==
  IF Stat(p, fs) = "dir" THEN [err |-> Nil, fs |-> fs]
  ELSE IF Stat(p, fs) = "file" \/ Stat(Dir(p), fs) = "file" THEN [err |-> ErrMkdir, fs |-> fs]
  ELSE [err |-> Nil, fs |-> [fs EXCEPT !.dirs = @ \cup {p, Dir(p)}]]

\* MkShow(s): the error it returns and the filesystem it leaves
MkShow(sh, fs) ==
  IF Len(sh.Name) = 0 THEN [err |-> ErrEmptyShowName, fs |-> fs]
  ELSE IF ~Atoi(sh.Year).ok THEN [err |-> ErrInvalidYear, fs |-> fs]
  ELSE IF ~Atoi(sh.ID).ok THEN [err |-> ErrInvalidTVDBID, fs |-> fs]
  ELSE MkdirAll(Join(sh.Dir, ShowDirName(sh.Name, Atoi(sh.Year).val, Atoi(sh.ID).val)), fs)

\* the shows MkShow is called with: the names "A", "A (B" and "", a year and
\* an ID that are numbers or not, in the library or under a regular file
Shows ==
  {[Name |-> n, Year |-> y, ID |-> i, Dir |-> d] :
     n \in {<<"A">>, <<"A", " ", "(", "B">>, <<>>},
     y \in {<<"2">>, <<"x">>}, i \in {<<"7">>, <<"y">>}, d \in {Media, ShowFile}}

\* the directory MkShow makes for a show
ShowPath(sh) == Join(sh.Dir, ShowDirName(sh.Name, Atoi(sh.Year).val, Atoi(sh.ID).val))

\* "(2)" and " (2)": nothing stands before the year
ShowNoName == Join(Media, <<"(", "2", ")">>)
ShowBlank == Join(Media, <<" ", "(", "2", ")">>)

\* e8: a file without extension
E8 == Join(Downloads, <<"e", "8">>)
ShowEpisodeFiles == {E9, E10, S2E1, E8}

\* the batches: files in any order, none twice
ShowBatches ==
  {b \in UNION {[1..k -> ShowEpisodeFiles] : k \in 1..MaxBatch} :
     \A i, j \in DOMAIN b : b[i] = b[j] => i = j}

\* the show directories MkSeason is called with, for season 2
ShowDirArgs ==
  {ShowX, ShowNoName, ShowBlank}
  \cup {ShowPath(sh) : sh \in {x \in Shows : Atoi(x.Year).ok /\ Atoi(x.ID).ok /\ x.Dir = Media}}

ShowSeasons ==
  {[N |-> <<"2">>, ShowDir |-> d, Episodes |-> b, MatchIndex |-> 0] :
     d \in ShowDirArgs, b \in ShowBatches}

\* the season directories AddEpisodes is called with: "Season 02" of these,
\* and "Season 01" of "(2)" and " (2)", which is there from the start
ShowAdditions ==
  {[SeasonDir |-> d, Episodes |-> b, MatchIndex |-> 0] :
     d \in {Join(x, SeasonName(2)) : x \in ShowDirArgs}
           \cup {Join(ShowNoName, SeasonName(1)), Join(ShowBlank, SeasonName(1))},
     b \in ShowBatches}

InitShow ==
  /\ dirs = {Media, Downloads, ShowX, ShowNoName, ShowBlank,
             Join(ShowNoName, SeasonName(1)), Join(ShowBlank, SeasonName(1))}
  /\ files = [p \in ShowEpisodeFiles \cup {ShowFile} |-> p]
  /\ pc = "idle"
  /\ call = NoCall
  /\ loc = NoLoc
  /\ next = 0
  /\ task = <<>>
  /\ gerr = Nil
  /\ result = Nil
  /\ nops = 0
  /\ pre = [dirs |-> dirs, files |-> files]
  /\ made = {}

\* MkShow is called and returns
CallMkShow ==
  /\ pc = "idle"
  /\ nops < MaxOps
  /\ \E sh \in Shows : \E r \in {MkShow(sh, FS)} :
       /\ call' = [kind |-> "MkShow", arg |-> sh]
       /\ dirs' = r.fs.dirs
       /\ files' = r.fs.files
       /\ result' = r.err
  /\ nops' = nops + 1
  /\ pre' = FS
  /\ pc' = "returned"
  /\ UNCHANGED <<loc, next, task, gerr, made>>

CallMkSeasonShow ==
  /\ pc = "idle"
  /\ nops < MaxOps
  /\ \E s \in ShowSeasons : \E r \in {MkSeasonEnter(s, FS)} : Enter("MkSeason", s, r)

CallAddEpisodesShow ==
  /\ pc = "idle"
  /\ nops < MaxOps
  /\ \E a \in ShowAdditions : \E r \in {AddEpisodesEnter(a, FS)} : Enter("AddEpisodes", a, r)

NextShow ==
  CallMkShow \/ CallMkSeasonShow \/ CallAddEpisodesShow \/ Go \/ Task \/ Wait \/ Return

SpecShow == InitShow /\ [][NextShow]_vars

(***************************************************************************)
(* sortEpisodes alone, on the batches the two operations pass to it (they  *)
(* return errNoEpisodes before it for an empty batch): short batches of    *)
(* the names below, and batches of maxInsertion+1 files with the tokens 1  *)
(* and 2, the shortest that slices.SortFunc does not sort by insertion.    *)
(***************************************************************************)
MaxSortBatch == 3     \* the longest of the short batches

\* f09.k has the token of e9.m
F09 == Join(Downloads, <<"f", "0", "9", ".", "k">>)

SortNames == {E9, E10, F09, S2E1, EX}

Letters == <<"a", "b", "c", "d", "e", "f", "h", "k", "l", "m", "n", "o", "p">>

\* a1.m or a2.m, b1.m or b2.m, ...: distinct files, two tokens
LongBatches ==
  {[k \in 1..(maxInsertion + 1) |-> Join(Downloads, <<Letters[k], t[k], ".", "m">>)] :
     t \in [1..(maxInsertion + 1) -> {"1", "2"}]}

\* "Bleach 1S30E04.mkv" and "Bleach 2S30E03.mkv": three digit runs each
Bleach1 ==
  Join(Downloads,
    <<"B", "l", "e", "a", "c", "h", " ", "1", "S", "3", "0", "E", "0", "4",
      ".", "m", "k", "v">>)
Bleach2 ==
  Join(Downloads,
    <<"B", "l", "e", "a", "c", "h", " ", "2", "S", "3", "0", "E", "0", "3",
      ".", "m", "k", "v">>)

\* batches of the two, with every match index up to one past the last run
BleachCalls ==
  {[Episodes |-> b, MatchIndex |-> m] :
     b \in UNION {[1..k -> {Bleach1, Bleach2}] : k \in 1..2}, m \in 0..3}

SortCalls ==
  {[Episodes |-> b, MatchIndex |-> m] :
     b \in UNION {[1..k -> SortNames] : k \in 1..MaxSortBatch}, m \in MatchIndexes}
  \cup {[Episodes |-> b, MatchIndex |-> 0] : b \in LongBatches}
  \cup BleachCalls

InitSort ==
  /\ dirs = InitDirs
  /\ files = InitFiles
  /\ pc = "idle"
  /\ call \in {[kind |-> "sortEpisodes", arg |-> a] : a \in SortCalls}
  /\ loc = NoLoc
  /\ next = 0
  /\ task = <<>>
  /\ gerr = Nil
  /\ result = Nil
  /\ nops = 0
  /\ pre = [dirs |-> InitDirs, files |-> InitFiles]
  /\ made = {}

\* sortEpisodes(eps, i) runs: eps is sorted in place, or left alone with an
\* error
SortEpisodes ==
  /\ pc = "idle"
  /\ call.kind = "sortEpisodes"
  /\ \E r \in {sortEpisodes(call.arg.Episodes, call.arg.MatchIndex)} :
       /\ loc' = [NoLoc EXCEPT !.eps = r.eps]
       /\ result' = r.err
  /\ pc' = "returned"
  /\ UNCHANGED <<dirs, files, call, next, task, gerr, nops, pre, made>>

NextSort == SortEpisodes

SpecSort == InitSort /\ [][NextSort]_vars

(***************************************************************************)
(* What the claims read in a state                                         *)
(***************************************************************************)

\* the running operation has returned
Returned(kind) == pc = "returned" /\ call.kind = kind

\* the filesystem is as it was when the operation was called
Untouched == dirs = pre.dirs /\ files = pre.files

\* the entry names of a directory now, and when the operation was called
Entries(dir) == ReadDir(dir, FS)
EntriesBefore(dir) == ReadDir(dir, pre)

\* the show name and the season number in the names MkSeason gives
ShowOfMkSeason == Cut(Base(call.arg.ShowDir), YearSep).before
NumberOfMkSeason == Atoi(call.arg.N).val
DirOfMkSeason == Join(call.arg.ShowDir, SeasonPrefix \o Pad2(NumberOfMkSeason))

\* the same for AddEpisodes
ShowOfAddEpisodes == Cut(Base(Dir(call.arg.SeasonDir)), YearSep).before
NumberOfAddEpisodes == Atoi(TrimPrefix(Base(call.arg.SeasonDir), SeasonPrefix)).val

\* the name of episode k made from the source path e
Named(show, n, k, e) ==
  show \o <<" ", "S">> \o Pad2(n) \o <<"E">> \o Pad2(k) \o Ext(Base(e))

\* the file that was at path e when the operation was called is now at path p
MovedTo(e, p) ==
  /\ e \in DOMAIN pre.files
  /\ p \in DOMAIN files
  /\ files[p] = pre.files[e]

\* the byte-wise greatest of a set of names
Greatest(names) == CHOOSE x \in names : \A y \in names : y = x \/ StrLess(y, x)

\* the number episodeRe reads in a name
Encoded(name) == Atoi(FindStringSubmatch(name)).val

\* the episode number of an entry named by the template for show and n
RECURSIVE LeadingDigits(_)
LeadingDigits(t) ==
  IF t = <<>> \/ ~IsDigit(Head(t)) THEN <<>> ELSE <<Head(t)>> \o LeadingDigits(Tail(t))

EpisodeOf(name, show, n) ==
  LET prefix == show \o <<" ", "S">> \o Pad2(n) \o <<"E">>
  IN  DigitsVal(LeadingDigits(SubSeq(name, Len(prefix) + 1, Len(name))))

Max(S) == CHOOSE x \in S : \A y \in S : y <= x

(***************************************************************************)
(* C1: when MkSeason returns no error for a batch of N files, the file at  *)
(* index i (0-based) of the sorted batch is the entry of the new season    *)
(* directory named with episode number i+1, and the directory holds these  *)
(* N entries and nothing else.                                             *)
(***************************************************************************)
C1_FreshSeasonNumbers ==
  (Returned("MkSeason") /\ result = Nil) =>
    LET N == Len(call.arg.Episodes)
        name(i) == Named(ShowOfMkSeason, NumberOfMkSeason, i + 1, loc.eps[i + 1])
    IN  /\ Len(loc.eps) = N
        /\ \A i \in 0..(N - 1) : MovedTo(loc.eps[i + 1], Join(DirOfMkSeason, name(i)))
        /\ Entries(DirOfMkSeason) = {name(i) : i \in 0..(N - 1)}
        /\ Cardinality(Entries(DirOfMkSeason)) = N
        /\ {EpisodeOf(e, ShowOfMkSeason, NumberOfMkSeason) : e \in Entries(DirOfMkSeason)}
             = 1..N

\* MkSeason has returned no error for two files it had to reorder
C1_Witness ==
  /\ Returned("MkSeason")
  /\ result = Nil
  /\ Len(call.arg.Episodes) = 2
  /\ loc.eps # call.arg.Episodes
  /\ Cardinality(Entries(DirOfMkSeason)) = 2

(***************************************************************************)
(* C2: when AddEpisodes returns no error for a batch of N files and the    *)
(* last entry of the season directory encoded the number E (the number     *)
(* episodeRe reads in it) when it was called, the file at index i of the   *)
(* sorted batch is the entry named with episode number E+i+1; the N names  *)
(* are distinct.                                                           *)
(***************************************************************************)
C2_AppendedNumbers ==
  (Returned("AddEpisodes") /\ result = Nil /\ EntriesBefore(call.arg.SeasonDir) # {}) =>
    LET N == Len(call.arg.Episodes)
        E == Encoded(Greatest(EntriesBefore(call.arg.SeasonDir)))
        name(i) == Named(ShowOfAddEpisodes, NumberOfAddEpisodes, E + i + 1, loc.eps[i + 1])
    IN  /\ Len(loc.eps) = N
        /\ \A i \in 0..(N - 1) : MovedTo(loc.eps[i + 1], Join(call.arg.SeasonDir, name(i)))
        /\ Cardinality({name(i) : i \in 0..(N - 1)}) = N
        /\ {EpisodeOf(name(i), ShowOfAddEpisodes, NumberOfAddEpisodes) : i \in 0..(N - 1)}
             = (E + 1)..(E + N)

\* AddEpisodes has returned no error for two files added to a season that
\* already held entries
C2_Witness ==
  /\ Returned("AddEpisodes")
  /\ result = Nil
  /\ Len(call.arg.Episodes) = 2
  /\ EntriesBefore(call.arg.SeasonDir) # {}

(***************************************************************************)
(* C3: in a season directory made by a successful MkSeason and used since  *)
(* by successful AddEpisodes only, the first file of the next AddEpisodes  *)
(* batch gets the greatest episode number of the directory plus one.       *)
(***************************************************************************)
C3_ContinuesFromHighest ==
  (/\ Returned("AddEpisodes")
   /\ result = Nil
   /\ call.arg.SeasonDir \in made) =>
    LET show == ShowOfAddEpisodes
        n    == NumberOfAddEpisodes
        high == Max({EpisodeOf(e, show, n) : e \in EntriesBefore(call.arg.SeasonDir)})
    IN  MovedTo(loc.eps[1], Join(call.arg.SeasonDir, Named(show, n, high + 1, loc.eps[1])))

(***************************************************************************)
(* C4: a successful AddEpisodes on such a season directory overwrites no   *)
(* entry and repeats no episode number: every entry is still there with    *)
(* its content, the directory has as many entries more as the batch has    *)
(* files, and no two entries have the same episode number.                 *)
(***************************************************************************)
C4_NothingOverwritten ==
  (/\ Returned("AddEpisodes")
   /\ result = Nil
   /\ call.arg.SeasonDir \in made) =>
    LET dir == call.arg.SeasonDir
    IN  /\ \A e \in EntriesBefore(dir) :
             /\ Join(dir, e) \in DOMAIN files
             /\ files[Join(dir, e)] = pre.files[Join(dir, e)]
        /\ Cardinality(Entries(dir)) =
             Cardinality(EntriesBefore(dir)) + Len(call.arg.Episodes)
        /\ \A e, f \in Entries(dir) :
             e # f => EpisodeOf(e, ShowOfAddEpisodes, NumberOfAddEpisodes)
                        # EpisodeOf(f, ShowOfAddEpisodes, NumberOfAddEpisodes)

(***************************************************************************)
(* C10: when MkSeason or AddEpisodes returns after its g.Go loop, every    *)
(* task of the batch has been started and has finished.                    *)
(***************************************************************************)
C10_ReturnsAfterAllTasks ==
  (pc = "returned" /\ call.kind \in {"MkSeason", "AddEpisodes"}) =>
    \A i \in 1..Len(task) : task[i] \in {"ok", "failed"}

\* an operation has returned after a failed and a successful rename
C10_Witness ==
  /\ pc = "returned"
  /\ Len(task) = 2
  /\ \E i, j \in 1..2 : task[i] = "ok" /\ task[j] = "failed"

(***************************************************************************)
(* What the claims read in the argument of the running operation           *)
(***************************************************************************)
Batch == call.arg.Episodes
MatchIndex == call.arg.MatchIndex

\* the number of digit runs of the base name of a path
Runs(e) == Len(FindAllString(Base(e)))

\* the integer value of the digit run at index i of the base name of a path
TokenAt(e, i) == DigitsVal(FindAllString(Base(e))[i + 1])

\* the positions of a batch
Pos(b) == 1..Len(b)

\* the match index is in range for every file of the batch
IndexInRange == MatchIndex >= 0 /\ \A k \in Pos(Batch) : Runs(Batch[k]) >= MatchIndex + 1

\* out is a permutation of in
Permutation(out, in) ==
  /\ Len(out) = Len(in)
  /\ \A e \in {in[k] : k \in Pos(in)} :
       Cardinality({k \in Pos(in) : in[k] = e}) = Cardinality({k \in Pos(out) : out[k] = e})

\* the checks MkSeason makes before sortEpisodes pass
MkSeasonReachesSort ==
  /\ Atoi(call.arg.N).ok
  /\ Stat(call.arg.ShowDir, pre) = "dir"
  /\ Index(Base(call.arg.ShowDir), YearSep) # 0
  /\ Batch # <<>>
  /\ \A k \in Pos(Batch) : Stat(Batch[k], pre) = "file"

\* the checks AddEpisodes makes before sortEpisodes pass
AddEpisodesReachesSort ==
  /\ Stat(call.arg.SeasonDir, pre) = "dir"
  /\ HasPrefix(Base(call.arg.SeasonDir), SeasonPrefix)
  /\ Atoi(TrimPrefix(Base(call.arg.SeasonDir), SeasonPrefix)).ok
  /\ Index(Base(Dir(call.arg.SeasonDir)), YearSep) # 0
  /\ Batch # <<>>
  /\ \A k \in Pos(Batch) : Stat(Batch[k], pre) = "file"

\* an operation has returned whose call reached sortEpisodes
ReturnedAfterSort ==
  \/ Returned("MkSeason") /\ MkSeasonReachesSort
  \/ Returned("AddEpisodes") /\ AddEpisodesReachesSort

(***************************************************************************)
(* C5: for a non-empty batch whose base names all have at least            *)
(* matchIndex+1 digit runs (matchIndex >= 0), sortEpisodes returns no      *)
(* error and leaves a permutation of the batch in which the integer at     *)
(* matchIndex never decreases (9 before 10).                               *)
(***************************************************************************)
C5_SortedByToken ==
  (Returned("sortEpisodes") /\ IndexInRange) =>
    /\ result = Nil
    /\ Permutation(loc.eps, Batch)
    /\ \A k \in 1..(Len(loc.eps) - 1) :
         TokenAt(loc.eps[k], MatchIndex) <= TokenAt(loc.eps[k + 1], MatchIndex)

\* sortEpisodes has put e9.m before e10.m, which it was given first
C5_Witness ==
  /\ Returned("sortEpisodes")
  /\ result = Nil
  /\ Batch = <<E10, E9>>
  /\ loc.eps = <<E9, E10>>

(***************************************************************************)
(* C6: sortEpisodes is stable: two files of the batch with the same        *)
(* integer at matchIndex are left in the order they were given in.         *)
(***************************************************************************)
C6_Stable ==
  (Returned("sortEpisodes") /\ result = Nil) =>
    \A i, j \in Pos(Batch) :
      (/\ i < j
       /\ Batch[i] # Batch[j]
       /\ TokenAt(Batch[i], MatchIndex) = TokenAt(Batch[j], MatchIndex)) =>
        \E k, l \in Pos(loc.eps) : k < l /\ loc.eps[k] = Batch[i] /\ loc.eps[l] = Batch[j]

(***************************************************************************)
(* C7: when MkSeason is called with a season number that is no integer, a  *)
(* show directory that is missing, no directory or without " (", an empty  *)
(* batch, an episode path that is missing or a directory, a base name      *)
(* without a digit run, or a match index out of range, it returns an       *)
(* error and leaves the filesystem as it was: no season directory, no      *)
(* file moved.                                                             *)
(***************************************************************************)
C7_InvalidInput ==
  \/ ~Atoi(call.arg.N).ok
  \/ Stat(call.arg.ShowDir, pre) # "dir"
  \/ Index(Base(call.arg.ShowDir), YearSep) = 0
  \/ Batch = <<>>
  \/ \E k \in Pos(Batch) : Stat(Batch[k], pre) # "file"
  \/ \E k \in Pos(Batch) : Runs(Batch[k]) = 0
  \/ ~IndexInRange

C7_ValidationBeforeMutation ==
  (call.kind = "MkSeason" /\ C7_InvalidInput) =>
    /\ pc = "returned"
    /\ result # Nil
    /\ Untouched

\* MkSeason has returned the error of its last check for a batch of two
\* regular files
C7_Witness ==
  /\ Returned("MkSeason")
  /\ result = ErrInvalidMatchIndex
  /\ Len(Batch) = 2
  /\ Untouched

(***************************************************************************)
(* C8 as claimed: when the call reaches sortEpisodes and a base name of    *)
(* the batch has no digit run, the operation returns the "must contain     *)
(* number" error, whatever the match index, and moves no file.             *)
(***************************************************************************)
C8_AlwaysMustContainNumber ==
  (ReturnedAfterSort /\ \E k \in Pos(Batch) : Runs(Batch[k]) = 0) =>
    /\ result = ErrMustContainNumber
    /\ Untouched

\* the first position of the batch whose file has no digit run
FirstWithoutNumber == CHOOSE k \in Pos(Batch) :
  /\ Runs(Batch[k]) = 0
  /\ \A j \in 1..(k - 1) : Runs(Batch[j]) # 0

(***************************************************************************)
(* C8 as amended: when the call reaches sortEpisodes and a base name of    *)
(* the batch has no digit run, the operation returns an error and moves    *)
(* no file; the error is "must contain number" when the match index is in  *)
(* range for every file listed before the first such file, and "invalid    *)
(* match index" otherwise.                                                 *)
(***************************************************************************)
C8_FirstErrorInBatchOrder ==
  (ReturnedAfterSort /\ \E k \in Pos(Batch) : Runs(Batch[k]) = 0) =>
    /\ Untouched
    /\ result = IF \A j \in 1..(FirstWithoutNumber - 1) :
                      MatchIndex >= 0 /\ MatchIndex < Runs(Batch[j])
                THEN ErrMustContainNumber
                ELSE ErrInvalidMatchIndex

\* a batch with a file without a digit run has been refused with the
\* "invalid match index" error
C8_Witness ==
  /\ ReturnedAfterSort
  /\ \E k \in Pos(Batch) : Runs(Batch[k]) = 0
  /\ result = ErrInvalidMatchIndex
  /\ Untouched

\* sortEpisodes returned no error in the operation that has returned
SortPassed == result \notin {ErrMustContainNumber, ErrInvalidMatchIndex}

(***************************************************************************)
(* C9 as claimed: the operation returns the "invalid match index" error    *)
(* whenever the match index is negative or a file with a digit run has     *)
(* fewer than matchIndex+1 of them; sortEpisodes returns no error exactly  *)
(* when the index is in range for every file; on the "invalid match        *)
(* index" error no file is moved.                                          *)
(***************************************************************************)
C9_AlwaysInvalidMatchIndex ==
  ReturnedAfterSort =>
    /\ (\/ MatchIndex < 0
        \/ \E k \in Pos(Batch) : Runs(Batch[k]) >= 1 /\ Runs(Batch[k]) < MatchIndex + 1)
         => result = ErrInvalidMatchIndex
    /\ SortPassed <=> IndexInRange
    /\ result = ErrInvalidMatchIndex => Untouched

\* the positions of the batch whose file sortEpisodes refuses
Refused == {k \in Pos(Batch) :
              Runs(Batch[k]) = 0 \/ MatchIndex < 0 \/ MatchIndex >= Runs(Batch[k])}

(***************************************************************************)
(* C9 as amended: the operation returns the "invalid match index" error    *)
(* exactly when the first file of the batch that has no digit run or has   *)
(* the index out of range (negative, or not below its number of digit      *)
(* runs) is a file with a digit run; sortEpisodes returns no error exactly *)
(* when the index is in range for every file; on the "invalid match        *)
(* index" error no file is moved.                                          *)
(***************************************************************************)
C9_FirstRefusedFileDecides ==
  ReturnedAfterSort =>
    /\ result = ErrInvalidMatchIndex <=>
         (Refused # {} /\ Runs(Batch[CHOOSE k \in Refused : \A j \in Refused : k <= j]) >= 1)
    /\ SortPassed <=> IndexInRange
    /\ result = ErrInvalidMatchIndex => Untouched

\* an operation has refused, with the "invalid match index" error, a batch
\* of two files for the second one (s2e1.k has index 1, e9.m has not)
C9_Witness ==
  /\ ReturnedAfterSort
  /\ Batch = <<S2E1, E9>>
  /\ MatchIndex = 1
  /\ result = ErrInvalidMatchIndex
  /\ Untouched

(***************************************************************************)
(* C11: once the rename phase of MkSeason or AddEpisodes has begun, the    *)
(* failure of one file's rename prevents no other rename of the batch:     *)
(* after a failure the loop can still start the tasks it has not started,  *)
(* and every started task that has not returned can still run.             *)
(***************************************************************************)
C11_FailureStopsNoRename ==
  /\ (pc = "go" /\ next < Len(loc.eps)) => ENABLED Go
  /\ \A i \in 0..(Len(task) - 1) : task[i + 1] = "running" => ENABLED RunTask(i)

\* one rename of the batch has failed while another has not run yet, and
\* it can run
C11_Witness ==
  /\ pc = "wait"
  /\ \E i, j \in 0..(Len(task) - 1) :
       task[i + 1] = "failed" /\ task[j + 1] = "running" /\ ENABLED RunTask(j)

\* an operation has returned from g.Wait(): its checks had passed and its
\* rename tasks were started
ReturnedFromWait == pc = "returned" /\ task # <<>>

(***************************************************************************)
(* C12: after validation has passed, MkSeason and AddEpisodes return no    *)
(* error if and only if every rename of the batch succeeded; when a rename *)
(* failed the returned error is an error of os.Rename, never nil.          *)
(***************************************************************************)
C12_SuccessIffEveryRename ==
  ReturnedFromWait =>
    /\ result = Nil <=> \A i \in 1..Len(task) : task[i] = "ok"
    /\ (\E i \in 1..Len(task) : task[i] = "failed") => result \in {ErrRename, ErrRenameEnv}
    /\ result = gerr

\* an operation has returned the error of a failed rename although another
\* rename of the batch succeeded
C12_Witness ==
  /\ ReturnedFromWait
  /\ \E i, j \in 1..Len(task) : task[i] = "failed" /\ task[j] = "ok"
  /\ result = ErrRenameEnv

\* the base name of the show directory of the running operation
ShowBase ==
  IF call.kind = "MkSeason" THEN Base(call.arg.ShowDir) ELSE Base(Dir(call.arg.SeasonDir))

\* the checks the operation makes before it looks for " (" pass
ReachesShowName ==
  \/ /\ call.kind = "MkSeason"
     /\ Atoi(call.arg.N).ok
     /\ Stat(call.arg.ShowDir, pre) = "dir"
  \/ /\ call.kind = "AddEpisodes"
     /\ Stat(call.arg.SeasonDir, pre) = "dir"
     /\ HasPrefix(Base(call.arg.SeasonDir), SeasonPrefix)
     /\ Atoi(TrimPrefix(Base(call.arg.SeasonDir), SeasonPrefix)).ok

\* the entries the operation has added to its season directory
NewEntries == Entries(OpSeasonDir) \ EntriesBefore(OpSeasonDir)

(***************************************************************************)
(* C13: when the base name of the show directory contains " (", the names  *)
(* MkSeason and AddEpisodes give the episodes start with the text before   *)
(* its first " (", followed by " S"; when it does not, the operation fails *)
(* and moves nothing, with the invalid-directory error of MkSeason or the  *)
(* invalid-show-directory error of AddEpisodes once the checks made before *)
(* that one have passed.                                                   *)
(***************************************************************************)
C13_ShowNameBeforeFirstSeparator ==
  call.kind \in {"MkSeason", "AddEpisodes"} =>
    IF Index(ShowBase, YearSep) # 0
    THEN task # <<>> =>
           \A name \in NewEntries :
             HasPrefix(name, SubSeq(ShowBase, 1, Index(ShowBase, YearSep) - 1) \o <<" ", "S">>)
    ELSE /\ pc = "returned"
         /\ result # Nil
         /\ Untouched
         /\ ReachesShowName =>
              result = IF call.kind = "MkSeason" THEN ErrInvalidDirectory
                       ELSE ErrInvalidShowDirectory

\* MkSeason has named an episode of "B (1) (2)" with the show name "B"
C13_Witness ==
  /\ Returned("MkSeason")
  /\ call.arg.ShowDir = ShowTwoSep
  /\ result = Nil
  /\ \E name \in NewEntries : HasPrefix(name, <<"B", " ", "S">>)

\* the base name of the season directory AddEpisodes is called with, and
\* what follows "Season " in it
SeasonBase == Base(call.arg.SeasonDir)
SeasonRest == TrimPrefix(SeasonBase, SeasonPrefix)

\* the base name is "Season " and a non-negative integer
NonNegativeSeason ==
  /\ HasPrefix(SeasonBase, SeasonPrefix)
  /\ Atoi(SeasonRest).ok
  /\ Atoi(SeasonRest).val >= 0

(***************************************************************************)
(* C14: AddEpisodes called with a directory whose base name is not         *)
(* "Season " followed by a non-negative integer (prefix missing, remainder *)
(* empty, not a number, or negative) fails with the                        *)
(* invalid-season-directory or the invalid-season error and moves no file. *)
(***************************************************************************)
C14_SeasonIsNonNegative ==
  (/\ Returned("AddEpisodes")
   /\ Stat(call.arg.SeasonDir, pre) = "dir"
   /\ ~NonNegativeSeason) =>
    /\ result \in {ErrInvalidSeasonDirectory, ErrInvalidSeason}
    /\ Untouched

\* AddEpisodes has returned after a call that read the entries of its season
\* directory: every check before os.ReadDir had passed
ReturnedAfterReadDir ==
  /\ Returned("AddEpisodes")
  /\ AddEpisodesReachesSort
  /\ IndexInRange

\* the last entry of the season directory at the call
PrevEp == Greatest(EntriesBefore(call.arg.SeasonDir))

\* the positions of a character in a name
Positions(name, c) == {i \in 1..Len(name) : name[i] = c}

\* the name has no "E" before a "."
NoMarkers(name) ==
  ~\E i \in Positions(name, "E"), j \in Positions(name, ".") : i < j

\* what stands between the first "E" of the name and the first "." after it
BetweenMarkers(name) ==
  LET i == CHOOSE x \in Positions(name, "E") :
             /\ \E j \in Positions(name, ".") : x < j
             /\ \A y \in Positions(name, "E") : x <= y
      j == CHOOSE x \in Positions(name, ".") :
             x > i /\ \A y \in Positions(name, ".") : y > i => x <= y
  IN  SubSeq(name, i + 1, j - 1)

\* a non-empty string of digits
Decimal(t) == t # <<>> /\ \A k \in 1..Len(t) : IsDigit(t[k])

(***************************************************************************)
(* C15: when the season directory is not empty, AddEpisodes fails with the *)
(* invalid-episode error if its last entry has no "E" before a ".", and    *)
(* with the invalid-episode-number error if what stands between the "E"    *)
(* and the "." is not a decimal number; no file is moved in either case.   *)
(***************************************************************************)
C15_LastEntryErrors ==
  (ReturnedAfterReadDir /\ EntriesBefore(call.arg.SeasonDir) # {}) =>
    /\ NoMarkers(PrevEp) => (result = ErrInvalidEpisode /\ Untouched)
    /\ (~NoMarkers(PrevEp) /\ ~Decimal(BetweenMarkers(PrevEp))) =>
         (result = ErrInvalidEpisodeNumber /\ Untouched)

\* the show and season directories of the call pass the checks made before
\* the batch is looked at
ValidDirectories ==
  /\ ReachesShowName
  /\ Index(ShowBase, YearSep) # 0

(***************************************************************************)
(* C16: MkSeason and AddEpisodes called with an empty batch, on show and   *)
(* season directories that pass their checks, return the no-episodes-found *)
(* error at once: MkSeason creates no season directory and AddEpisodes     *)
(* leaves the season directory as it was.                                  *)
(***************************************************************************)
C16_EmptyBatch ==
  (call.kind \in {"MkSeason", "AddEpisodes"} /\ Batch = <<>> /\ ValidDirectories) =>
    /\ pc = "returned"
    /\ result = errNoEpisodes
    /\ Untouched

\* AddEpisodes has refused an empty batch for a season directory that holds
\* an episode
C16_Witness ==
  /\ Returned("AddEpisodes")
  /\ call.arg.SeasonDir = SeasonX
  /\ Batch = <<>>
  /\ result = errNoEpisodes
  /\ Entries(SeasonX) = EntriesBefore(SeasonX)
  /\ Entries(SeasonX) # {}

(***************************************************************************)
(* C17: MkSeason and AddEpisodes check every source path of the batch      *)
(* before any move: when a path of the batch does not exist or is a        *)
(* directory the operation fails at once and no file is moved, the files   *)
(* listed before that path included; when the checks made before this one  *)
(* pass, the error is the one of the first such path.                      *)
(***************************************************************************)
C17_SourcesCheckedBeforeMoves ==
  (/\ call.kind \in {"MkSeason", "AddEpisodes"}
   /\ \E k \in Pos(Batch) : Stat(Batch[k], pre) # "file") =>
    /\ pc = "returned"
    /\ result # Nil
    /\ Untouched
    /\ ValidDirectories =>
         LET k == CHOOSE x \in Pos(Batch) :
                    /\ Stat(Batch[x], pre) # "file"
                    /\ \A y \in 1..(x - 1) : Stat(Batch[y], pre) = "file"
         IN  result = IF Stat(Batch[k], pre) = "none" THEN ErrInvalidEpisodeStat
                      ELSE ErrIsADirectory

\* an operation has refused a batch whose second path is a directory, and
\* the file listed first is where it was
C17_Witness ==
  /\ pc = "returned"
  /\ call.kind \in {"MkSeason", "AddEpisodes"}
  /\ Batch = <<E9, D3>>
  /\ result = ErrIsADirectory
  /\ E9 \in DOMAIN files
  /\ Untouched

\* the decimal digits of n, with a zero before a single digit
TwoDigits(n) == IF n < 10 THEN <<"0", DigitChar(n)>> ELSE Itoa(n)

\* "Season 03", "The Office S03E01.mkv" and "The Office S03E02.mkv"
Season03 == <<"S", "e", "a", "s", "o", "n", " ", "0", "3">>
OfficeS03E01 ==
  <<"T", "h", "e", " ", "O", "f", "f", "i", "c", "e", " ", "S", "0", "3",
    "E", "0", "1", ".", "m", "k", "v">>
OfficeS03E02 ==
  <<"T", "h", "e", " ", "O", "f", "f", "i", "c", "e", " ", "S", "0", "3",
    "E", "0", "2", ".", "m", "k", "v">>

(***************************************************************************)
(* C18: when MkSeason returns no error, the one directory it has made is   *)
(* "Season <n>" in the show directory, with n written in at least two      *)
(* digits, and every file of the batch is in it under the name             *)
(* "<show> S<n>E<k><extension of that file>", n and k in at least two      *)
(* digits; for "The Office (2005) [tvdbid-73244]", season 3 and the batch  *)
(* ep1.mkv, ep2.mkv the directory is "Season 03" and holds exactly         *)
(* "The Office S03E01.mkv" (the file ep1.mkv) and "The Office S03E02.mkv"  *)
(* (the file ep2.mkv).                                                     *)
(***************************************************************************)
C18_SeasonAndEpisodeNames ==
  (Returned("MkSeason") /\ result = Nil) =>
    LET n == NumberOfMkSeason
        d == Join(call.arg.ShowDir, SeasonPrefix \o TwoDigits(n))
        name(k, e) ==
          ShowOfMkSeason \o <<" ", "S">> \o TwoDigits(n) \o <<"E">> \o TwoDigits(k)
            \o Ext(Base(e))
    IN  /\ dirs \ pre.dirs = {d}
        /\ \A e \in {Batch[k] : k \in Pos(Batch)} :
             \E k \in Pos(Batch) : MovedTo(e, Join(d, name(k, e)))
        /\ Entries(d) = {name(k, loc.eps[k]) : k \in Pos(Batch)}
        /\ (call.arg.ShowDir = Office /\ call.arg.N = <<"3">> /\ Batch = <<Ep1, Ep2>>
            /\ MatchIndex = 0) =>
             /\ dirs \ pre.dirs = {Join(Office, Season03)}
             /\ Entries(Join(Office, Season03)) = {OfficeS03E01, OfficeS03E02}
             /\ MovedTo(Ep1, Join(Join(Office, Season03), OfficeS03E01))
             /\ MovedTo(Ep2, Join(Join(Office, Season03), OfficeS03E02))

\* MkSeason has made season 3 of The Office from ep1.mkv and ep2.mkv
C18_Witness ==
  /\ Returned("MkSeason")
  /\ result = Nil
  /\ call.arg.ShowDir = Office
  /\ call.arg.N = <<"3">>
  /\ Batch = <<Ep1, Ep2>>
  /\ Entries(Join(Office, Season03)) = {OfficeS03E01, OfficeS03E02}

(***************************************************************************)
(* C19: for the batch "Bleach 1S30E04.mkv", "Bleach 2S30E03.mkv" the digit *)
(* runs are 1, 30, 04 and 2, 30, 03, counted from index 0: with            *)
(* matchIndex=2 the batch is ordered by 04 and 03 and "Bleach 2S30E03.mkv" *)
(* comes first; with matchIndex=1 both values are 30 and the batch is left *)
(* in the order it was given in.                                           *)
(***************************************************************************)
C19_BleachByThirdRun ==
  (Returned("sortEpisodes") /\ Batch = <<Bleach1, Bleach2>>) =>
    /\ MatchIndex = 2 =>
         /\ result = Nil
         /\ TokenAt(Bleach1, 2) = 4 /\ TokenAt(Bleach2, 2) = 3
         /\ loc.eps = <<Bleach2, Bleach1>>
    /\ MatchIndex = 1 =>
         /\ result = Nil
         /\ TokenAt(Bleach1, 1) = 30 /\ TokenAt(Bleach2, 1) = 30
         /\ loc.eps = <<Bleach1, Bleach2>>

\* sortEpisodes has sorted the two files by their third digit run
C19_Witness ==
  /\ Returned("sortEpisodes")
  /\ Batch = <<Bleach1, Bleach2>>
  /\ MatchIndex = 2
  /\ result = Nil
  /\ loc.eps = <<Bleach2, Bleach1>>

\* C19 as stated: with matchIndex=1 the output places "Bleach 2S30E03.mkv"
\* before "Bleach 1S30E04.mkv"
C19_BleachBySecondRun ==
  (Returned("sortEpisodes") /\ Batch = <<Bleach1, Bleach2>> /\ MatchIndex = 1) =>
    loc.eps = <<Bleach2, Bleach1>>

\* the show directory Rename has matched, <<>> when there is none
MatchedShowDir ==
  IF Stat(call.arg.Dir, pre) # "dir" THEN <<>>
  ELSE FindShowDir(SortedNames(ReadDir(call.arg.Dir, pre)), call.arg, pre)

\* the directories "Season <...>" of a show directory when Rename was called,
\* and the number in the name of one
SeasonDirsOf(showDir) ==
  {d \in pre.dirs : Dir(d) = showDir /\ HasPrefix(Base(d), SeasonPrefix)}
SeasonNumber(d) == DigitsVal(TrimPrefix(Base(d), SeasonPrefix))

\* every "Season <...>" directory of the show is named with a string of
\* digits
DecimalSeasons(showDir) ==
  \A d \in SeasonDirsOf(showDir) : Decimal(TrimPrefix(Base(d), SeasonPrefix))

(***************************************************************************)
(* C20: when the show directory Rename has matched holds at least one      *)
(* directory "Season <integer>" (and every "Season ..." directory of it is *)
(* named with a non-negative integer), Rename adds the file to one with    *)
(* the largest integer; a show whose only season is "Season 00" included.  *)
(***************************************************************************)
C20_HighestSeasonChosen ==
  (/\ Returned("Rename")
   /\ MatchedShowDir # <<>>
   /\ SeasonDirsOf(MatchedShowDir) # {}
   /\ DecimalSeasons(MatchedShowDir)) =>
    /\ result = Nil
    /\ loc.seasonDir \in SeasonDirsOf(MatchedShowDir)
    /\ \A d \in SeasonDirsOf(MatchedShowDir) : SeasonNumber(d) <= SeasonNumber(loc.seasonDir)
    /\ \E p \in DOMAIN files :
         Dir(p) = loc.seasonDir /\ files[p] = Join(call.arg.Dir, call.arg.Name)

\* the show directory under dir whose show name the torrent's name contains,
\* <<>> when there is none
ShowDirUnder(dir) ==
  IF Stat(dir, pre) # "dir" THEN <<>>
  ELSE FindShowDir(SortedNames(ReadDir(dir, pre)), [call.arg EXCEPT !.Dir = dir], pre)

\* the show under dir holds "Season <digits>" directories only, one of them
\* numbered above 0
PositiveSeasons(showDir) ==
  /\ DecimalSeasons(showDir)
  /\ \E d \in SeasonDirsOf(showDir) : SeasonNumber(d) > 0

\* the season directory of showDir with the highest number
HighestSeason(showDir) ==
  CHOOSE d \in SeasonDirsOf(showDir) :
    \A o \in SeasonDirsOf(showDir) : SeasonNumber(o) <= SeasonNumber(d)

(***************************************************************************)
(* C21: Rename looks for the show directories under File.DstDir: it        *)
(* returns an error when DstDir does not exist, is not a directory or      *)
(* holds no show directory whose show name File.Name contains; and when    *)
(* DstDir holds such a show, with season directories one of which is       *)
(* numbered above 0, and File.Dir/File.Name is a file, it returns no error *)
(* and the file is in the highest-numbered season directory of that show   *)
(* as its first episode (the season directories of the model are empty).   *)
(***************************************************************************)
C21_ShowsUnderDstDir ==
  Returned("Rename") =>
    LET t == call.arg
        showDir == ShowDirUnder(t.DstDir)
    IN  /\ showDir = <<>> => result # Nil
        /\ (/\ showDir # <<>>
            /\ PositiveSeasons(showDir)
            /\ Stat(Join(t.Dir, t.Name), pre) = "file") =>
             /\ result = Nil
             /\ LET d == HighestSeason(showDir)
                    name == EpisodeName(Cut(Base(showDir), YearSep).before,
                                        SeasonNumber(d), 1, Join(t.Dir, t.Name))
                IN  MovedTo(Join(t.Dir, t.Name), Join(d, name))

\* the part of a directory name that stands before the parenthesised year:
\* the text before the first "(", without the spaces that end it
RECURSIVE TrimRight(_)
TrimRight(t) ==
  IF t # <<>> /\ t[Len(t)] = " " THEN TrimRight(SubSeq(t, 1, Len(t) - 1)) ELSE t
NamePart(base) == TrimRight(Cut(base, <<"(">>).before)

\* the show directory of the operation
ShowDirOfCall ==
  IF call.kind = "MkSeason" THEN call.arg.ShowDir ELSE Dir(call.arg.SeasonDir)

(***************************************************************************)
(* C22: MkSeason and AddEpisodes return an error and move no file when the *)
(* base name of the show directory has no show name before the             *)
(* parenthesised year ("(2)" and " (2)").                                  *)
(***************************************************************************)
C22_EmptyShowNameRefused ==
  (/\ call.kind \in {"MkSeason", "AddEpisodes"}
   /\ NamePart(Base(ShowDirOfCall)) = <<>>) =>
    /\ pc = "returned"
    /\ result # Nil
    /\ Untouched

\* the files of the batch are regular files with pairwise distinct tokens at
\* the match index
DistinctTokens ==
  /\ IndexInRange
  /\ \A k \in Pos(Batch) : Stat(Batch[k], pre) = "file"
  /\ \A i, j \in Pos(Batch) :
       TokenAt(Batch[i], MatchIndex) = TokenAt(Batch[j], MatchIndex) => i = j

\* episodeRe matches the name
Accepted(name) == FindStringSubmatch(name) # <<>>

(***************************************************************************)
(* C23: after a successful MkSeason of N files with distinct tokens, for   *)
(* any show name and any source extension (none included), every entry of  *)
(* the season directory is accepted by episodeRe and the numbers it        *)
(* extracts are exactly 1..N; and an AddEpisodes of M such files issued    *)
(* next on that directory succeeds and its files get N+1..N+M.             *)
(***************************************************************************)
C23_TemplateParserRoundTrip ==
  /\ (Returned("MkSeason") /\ result = Nil /\ DistinctTokens) =>
       /\ \A e \in Entries(DirOfMkSeason) : Accepted(e)
       /\ {Encoded(e) : e \in Entries(DirOfMkSeason)} = 1..Len(Batch)
  /\ (Returned("AddEpisodes") /\ call.arg.SeasonDir \in made /\ DistinctTokens) =>
       LET before == EntriesBefore(call.arg.SeasonDir)
           new == Entries(call.arg.SeasonDir) \ before
       IN  /\ result = Nil
           /\ \A e \in new : Accepted(e)
           /\ {Encoded(e) : e \in new}
                = (Cardinality(before) + 1)..(Cardinality(before) + Len(Batch))

\* the steps of AddEpisodes that pass on the filesystem of the call: the
\* names of the season and show directories, the batch, the last entry
NamesPass ==
  /\ Stat(call.arg.SeasonDir, pre) = "dir"
  /\ HasPrefix(Base(call.arg.SeasonDir), SeasonPrefix)
  /\ Atoi(TrimPrefix(Base(call.arg.SeasonDir), SeasonPrefix)).ok
  /\ Index(Base(Dir(call.arg.SeasonDir)), YearSep) # 0
BatchPasses ==
  /\ Batch # <<>>
  /\ \A k \in Pos(Batch) : Stat(Batch[k], pre) = "file"
  /\ Refused = {}
OffsetPasses ==
  EntriesBefore(call.arg.SeasonDir) # {} => Accepted(PrevEp)

\* a rename has been issued: a task has been started or a file has moved
RenameIssued ==
  \/ \E i \in 1..Len(task) : task[i] # "none"
  \/ files # pre.files

(***************************************************************************)
(* C24: AddEpisodes validates the names of the season and show             *)
(* directories, then validates and sorts the batch, then reads the entries *)
(* of the season directory and allocates the offset, then renames: the     *)
(* error returned is that of the first of these steps that fails, no       *)
(* rename is issued when one of them fails, and whenever a rename has been *)
(* issued the offset has been allocated from the entries of the directory. *)
(***************************************************************************)
C24_StepsInOrder ==
  call.kind = "AddEpisodes" =>
    /\ ~NamesPass =>
         /\ pc = "returned" /\ ~RenameIssued
         /\ result \in {ErrInvalidSeasonDirectoryStat, ErrNotADirectory,
                        ErrInvalidSeasonDirectory, ErrInvalidSeason, ErrInvalidShowDirectory}
    /\ (NamesPass /\ ~BatchPasses) =>
         /\ pc = "returned" /\ ~RenameIssued
         /\ result \in {errNoEpisodes, ErrInvalidEpisodeStat, ErrIsADirectory,
                        ErrMustContainNumber, ErrInvalidMatchIndex}
    /\ (NamesPass /\ BatchPasses /\ ~OffsetPasses) =>
         /\ pc = "returned" /\ ~RenameIssued
         /\ result = ErrInvalidEpisode
    /\ RenameIssued =>
         /\ NamesPass /\ BatchPasses /\ OffsetPasses
         /\ pc \in {"go", "wait", "returned"}
         /\ Permutation(loc.eps, Batch)
         /\ loc.epn = IF EntriesBefore(call.arg.SeasonDir) = {} THEN 0 ELSE Encoded(PrevEp)

\* AddEpisodes has refused a batch with a missing file for a season
\* directory whose last entry has no episode number: the batch is looked at
\* first
C24_Witness ==
  /\ Returned("AddEpisodes")
  /\ NamesPass
  /\ EntriesBefore(call.arg.SeasonDir) # {}
  /\ ~Accepted(PrevEp)
  /\ Batch = <<E9, N4>>
  /\ result = ErrInvalidEpisodeStat
  /\ ~RenameIssued

\* the offset the listing of the season directory at the call gives
OffsetOfListing ==
  IF EntriesBefore(call.arg.SeasonDir) = {} THEN 0 ELSE Encoded(PrevEp)

(***************************************************************************)
(* C25: once AddEpisodes has passed its checks, its starting offset is 0   *)
(* when the season directory had no entries, and otherwise the number      *)
(* episodeRe reads in the byte-wise last name of the listing, whatever the *)
(* other entries are; when it returns no error the first file of the       *)
(* sorted batch is the episode offset+1 (episode 01 in an empty            *)
(* directory).                                                             *)
(***************************************************************************)
C25_OffsetFromLastEntry ==
  (\/ call.kind = "AddEpisodes" /\ pc \in {"go", "wait"}
   \/ Returned("AddEpisodes") /\ result = Nil) =>
    /\ loc.epn = OffsetOfListing
    /\ (pc = "returned") =>
         MovedTo(loc.eps[1],
                 Join(call.arg.SeasonDir,
                      Named(ShowOfAddEpisodes, NumberOfAddEpisodes, OffsetOfListing + 1,
                            loc.eps[1])))

\* AddEpisodes has added a file as episode 02 to a directory that held
\* "X S01E05.m" and "X S01E1.m"
C25_Witness ==
  /\ Returned("AddEpisodes")
  /\ result = Nil
  /\ Cardinality(EntriesBefore(call.arg.SeasonDir)) = 2
  /\ loc.epn = 1
  /\ Join(call.arg.SeasonDir, <<"X", " ", "S", "0", "1", "E", "0", "2", ".", "m">>) \in DOMAIN files

\* no path is twice in the batch
DistinctPaths == \A i, j \in Pos(Batch) : Batch[i] = Batch[j] => i = j

\* the destination of the file at position k (1-based) of the sorted batch
Destination(k) ==
  Join(loc.seasonDir, Named(loc.show, loc.n, loc.epn + k, loc.eps[k]))

TasksDispatched ==
  /\ call.kind \in {"MkSeason", "AddEpisodes"}
  /\ pc \in {"go", "wait", "returned"}
  /\ loc.eps # <<>>

(***************************************************************************)
(* C27: for every batch that passes the checks of MkSeason or AddEpisodes, *)
(* no two tasks have the same source path and no two tasks have the same   *)
(* destination path, and when the operation has returned the season        *)
(* directory holds the file of every task at its destination, whatever the *)
(* order the tasks ran in.                                                 *)
(***************************************************************************)
C27_DisjointTasks ==
  TasksDispatched =>
    /\ \A j, k \in 1..Len(loc.eps) : loc.eps[j] = loc.eps[k] => j = k
    /\ \A j, k \in 1..Len(loc.eps) : Destination(j) = Destination(k) => j = k
    /\ (pc = "returned") =>
         \A k \in 1..Len(loc.eps) : MovedTo(loc.eps[k], Destination(k))

\* "Season <NN>" of the show directory MkSeason is called with, for a season
\* number that is not negative
SeasonOfCall ==
  Join(call.arg.ShowDir, SeasonPrefix \o TwoDigits(Atoi(call.arg.N).val))

(***************************************************************************)
(* C28: when "Season <NN>" is already a directory of the show directory,   *)
(* MkSeason returns an error, every file of the batch stays at its source  *)
(* path and the season directory is unchanged; the error is that of        *)
(* os.Mkdir when the checks made before it pass.                           *)
(***************************************************************************)
C28_ExistingSeasonRefused ==
  (/\ call.kind = "MkSeason"
   /\ Atoi(call.arg.N).ok
   /\ Stat(SeasonOfCall, pre) = "dir") =>
    /\ pc = "returned"
    /\ result # Nil
    /\ Untouched
    /\ Entries(SeasonOfCall) = EntriesBefore(SeasonOfCall)
    /\ \A k \in Pos(Batch) :
         Stat(Batch[k], pre) = "file" =>
           Batch[k] \in DOMAIN files /\ files[Batch[k]] = pre.files[Batch[k]]
    /\ (ValidDirectories /\ BatchPasses) => result = ErrMkdir

\* MkSeason has refused a valid batch for "X (2)", whose "Season 01" holds
\* an entry
C28_Witness ==
  /\ Returned("MkSeason")
  /\ call.arg.ShowDir = ShowX
  /\ Batch = <<E10, E9>>
  /\ MatchIndex = 0
  /\ EntriesBefore(SeasonOfCall) # {}
  /\ result = ErrMkdir
  /\ Untouched

\* the shows whose directory, made by MkShow since the start, MkSeason is
\* called with
ShowsOfCall ==
  {sh \in Shows :
     /\ Len(sh.Name) # 0 /\ Atoi(sh.Year).ok /\ Atoi(sh.ID).ok
     /\ ShowPath(sh) = call.arg.ShowDir
     /\ ShowPath(sh) \in pre.dirs
     /\ ShowPath(sh) \notin {ShowX, ShowNoName, ShowBlank}}

(***************************************************************************)
(* C29: MkSeason, called with a valid batch on the directory MkShow has    *)
(* made for a non-empty show name, an integer year and an integer ID,      *)
(* returns no error, and the show name in the names of its episodes is the *)
(* name MkShow was given.                                                  *)
(***************************************************************************)
C29_MkShowMkSeasonRoundTrip ==
  (Returned("MkSeason") /\ ShowsOfCall # {} /\ DistinctTokens) =>
    \A sh \in ShowsOfCall :
      /\ result = Nil
      /\ loc.show = sh.Name
      /\ \A k \in 1..Len(loc.eps) :
           MovedTo(loc.eps[k],
                   Join(Join(call.arg.ShowDir, SeasonPrefix \o TwoDigits(NumberOfMkSeason)),
                        Named(sh.Name, NumberOfMkSeason, k, loc.eps[k])))

(***************************************************************************)
(* C30: every MkSeason and AddEpisodes operation terminates: when every    *)
(* dispatched rename returns, the operation returns, with or without an    *)
(* error, for every batch and every order of the tasks; and it is in       *)
(* g.Wait() only with every task of the batch dispatched.                  *)
(***************************************************************************)
C30_Terminates ==
  /\ [](pc = "wait" => \A k \in 1..Len(task) : task[k] # "none")
  /\ (call.kind \in {"MkSeason", "AddEpisodes"} /\ pc \in {"go", "wait"}) ~> (pc = "returned")

\* an operation has returned from g.Wait() with one task failed and one
\* done
C30_Witness ==
  /\ ReturnedFromWait
  /\ Len(task) = 2
  /\ \E j, k \in 1..2 : task[j] = "ok" /\ task[k] = "failed"
  /\ result = gerr
====
